---- MODULE Spec2Model ----
(***************************************************************************)
(* Model of the abra scheduling functions: the recurring-job projection    *)
(* of get-schedule.js and the read-modify-write handlers of                *)
(* update-schedule.js over the key/value JSON store of redis-storage.js.   *)
(*                                                                         *)
(* A date key "DD-MM-YYYY" is the tuple <<DD, MM, YYYY>>.  A JavaScript    *)
(* Date at local midnight is its day number (days since 01-01-1970 of the  *)
(* local calendar); getTime() is counted in hours, the grain of a          *)
(* daylight-saving shift.  A generated UUID is a fresh number; the id of a *)
(* projected job, `${rule.id}_${dateKey}`, is a UUID with a date suffix.   *)
(***************************************************************************)
EXTENDS Integers, Sequences, FiniteSets, TLC

VARIABLES
    store,      \* what readJSON returns per key: schedule, recurring, clients
    nextId,     \* number of UUIDs generated so far
    nWrites,    \* number of store writes so far
    resp,       \* the last response: [op, status, writes (the keys written)]
    snapshot,   \* body of the last get-schedule response (<<>> otherwise)
    job,        \* job in the body of the last cancel-job / delete-job response
    tz,         \* time zone of the process: "UTC" or "Europe" (with DST)
    p_in,       \* projection harness: [schedule, rules, keys]
    p_out,      \* projection harness: result of projectRecurringJobs
    p_prev,     \* projection harness: result before the latest projection
    p_pc        \* projection harness: "input", "once", "twice"

vars == <<store, nextId, nWrites, resp, snapshot, job, tz, p_in, p_out, p_prev, p_pc>>

-----------------------------------------------------------------------------
(* Bounds of the model *)

MaxRules == 2       \* rules in a projected rule list
MaxKeys == 2        \* requested date keys (repetition allowed)

-----------------------------------------------------------------------------
(* Date keys and the JavaScript Date arithmetic used by the code *)

D1 == <<2, 3, 2026>>     \* Monday, the start date S of the scenario
D2 == <<9, 3, 2026>>     \* Monday, S+7
D3 == <<10, 3, 2026>>    \* Tuesday
D4 == <<16, 3, 2026>>    \* Monday, S+14
D5 == <<30, 3, 2026>>    \* Monday, S+28, after the European DST change

TimeZones == {"UTC", "Europe"}

\* new Date(year, month - 1, day) at local midnight, as a day number.  Date
\* normalises a month outside 1..12 into the neighbouring years and lets a
\* day beyond the month's end run into the following month.
MakeDay(year, monthIndex, day) ==
    LET y0  == year + (monthIndex \div 12)
        m   == (monthIndex % 12) + 1
        y   == IF m <= 2 THEN y0 - 1 ELSE y0
        era == y \div 400
        yoe == y - era * 400
        mp  == IF m > 2 THEN m - 3 ELSE m + 9
        doy == (153 * mp + 2) \div 5 + day - 1
        doe == yoe * 365 + yoe \div 4 - yoe \div 100 + doy
    IN  era * 146097 + doe - 719468

\* The Date constructor reads a year argument of 0..99 as 1900..1999.
DateOf(year, monthIndex, day) ==
    MakeDay(IF year \in 0..99 THEN 1900 + year ELSE year, monthIndex, day)

parseDateKey(dateKey) == DateOf(dateKey[3], dateKey[2] - 1, dateKey[1])

\* The civil date <<day, month, year>> of a day number: getDate(),
\* getMonth() + 1 and getFullYear() of a Date.
CivilOf(date) ==
    LET z   == date + 719468
        era == z \div 146097
        doe == z - era * 146097
        yoe == (doe - doe \div 1460 + doe \div 36524 - doe \div 146096) \div 365
        doy == doe - (365 * yoe + yoe \div 4 - yoe \div 100)
        mp  == (5 * doy + 2) \div 153
        d   == doy - (153 * mp + 2) \div 5 + 1
        m   == IF mp < 10 THEN mp + 3 ELSE mp - 9
        y   == yoe + era * 400 + (IF m <= 2 THEN 1 ELSE 0)
    IN  <<d, m, y>>

formatDateKey(date) == CivilOf(date)

\* Date.prototype.getDay(): 0 = Sunday; 01-01-1970 was a Thursday.
getDay(date) == (date + 4) % 7

HoursPerDay == 24
DstStart == DateOf(2026, 2, 29)     \* 29-03-2026
DstEnd == DateOf(2026, 9, 25)       \* 25-10-2026

\* Date.prototype.getTime() of a local midnight, in hours: under summer time
\* local midnight comes one hour earlier in universal time.
getTime(date, zone) ==
    date * HoursPerDay
      - (IF zone = "Europe" /\ date >= DstStart /\ date < DstEnd THEN 1 ELSE 0)

-----------------------------------------------------------------------------
(* Records *)

Teams == {"Team_A", "Team_B"}

NoId == [uuid |-> 0, suffix |-> <<>>]       \* an absent id / recurring_id
Uuid(n) == [uuid |-> n, suffix |-> <<>>]    \* generateUUID()
InstanceId(ruleId, dateKey) == [uuid |-> ruleId.uuid, suffix |-> dateKey]

EmptySlot == [assigned_workers |-> <<>>, addresses |-> <<>>]
EmptyDay == [t \in Teams |-> EmptySlot]

\* f with key k bound to v (an assignment f[k] = v on a JavaScript object)
Put(f, k, v) == [x \in (DOMAIN f) \cup {k} |-> IF x = k THEN v ELSE f[x]]

\* Array.prototype.includes / some
Includes(seq, x) == \E i \in 1..Len(seq) : seq[i] = x

Frequencies == {"weekly", "fortnightly"}

\* created_at: new Date().toISOString().  The instant is kept as the number
\* of identifiers issued before it: later creations carry later instants.
Instant(n) == n

\* A recurring rule as add-recurring-job stores it, with id Uuid(n).
Rule(n, teamId, startDate, frequency, exceptions, paused) ==
    [id           |-> Uuid(n),
     street       |-> "Oak Ave",
     house_number |-> "5",
     team_id      |-> teamId,
     start_date   |-> startDate,
     frequency    |-> frequency,
     exceptions   |-> exceptions,
     paused       |-> paused,
     created_at   |-> Instant(n)]

\* A persisted job as add-job stores it: no recurring fields.
PlainJob(n, status) ==
    [id           |-> Uuid(n),
     recurring_id |-> NoId,
     street       |-> "Main Street",
     house_number |-> "42",
     status       |-> status,
     is_recurring |-> FALSE,
     frequency    |-> "undefined"]

\* A persisted job that carries the recurring_id of rule Uuid(r): an
\* occurrence of the rule placed on the schedule by hand.
PlacedJob(n, r, status) == [PlainJob(n, status) EXCEPT !.recurring_id = Uuid(r)]

Slot(workers, addresses) ==
    [assigned_workers |-> workers, addresses |-> addresses]

\* A value that the code tests with Array.isArray: a JavaScript array of
\* items, or something else (a string, a number, nothing at all).  A team
\* value of the schedule in the old format is such an array, of jobs.  An
\* array can carry named properties while it is in memory, further fields
\* of the record; JSON.stringify writes the items only.
JsArray(items) == [array |-> TRUE, items |-> items]
NotAnArray == [array |-> FALSE, items |-> <<>>]
ArrayIsArray(value) == "array" \in DOMAIN value /\ value.array

\* obj[f] = v on an object or on an array
SetProp(obj, f, v) ==
    IF f \in DOMAIN obj THEN [obj EXCEPT ![f] = v] ELSE Put(obj, f, v)

\* The schedule that JSON.stringify writes and JSON.parse reads back
Stringify(schedule) ==
    [d \in DOMAIN schedule |->
        [t \in DOMAIN schedule[d] |->
            IF ArrayIsArray(schedule[d][t]) THEN JsArray(schedule[d][t].items)
            ELSE schedule[d][t]]]

\* The jobs of a team value in either format
JobsOf(teamData) ==
    IF ArrayIsArray(teamData) THEN teamData.items ELSE teamData.addresses

\* The job of a response body that carries none
NoJob == [id |-> NoId, recurring_id |-> NoId, street |-> "", house_number |-> "",
          status |-> "undefined", is_recurring |-> FALSE, frequency |-> "undefined"]

-----------------------------------------------------------------------------
(* get-schedule.js: projectRecurringJobs *)

\* Math.round(diffMs / (1000 * 60 * 60 * 24)) with floor in place of round
MathFloorDiv(n, d) == n \div d

\* Math.round(n / d) for d > 0: the nearest integer, halves towards +infinity.
MathRoundDiv(n, d) == (2 * n + d) \div (2 * d)

\* The exceptions test with the list never consulted
Excepted_Never(rule, dateKey) == FALSE

\* (rule.exceptions || []).includes(dateKey)
Excepted(rule, dateKey) == Includes(rule.exceptions, dateKey)

\* The paused test with the flag never consulted
Paused_Never(rule) == FALSE

\* if (rule.paused) continue
Paused(rule) == rule.paused

\* The four skip tests of the inner loop: TRUE when the rule has an
\* occurrence on dateKey (same weekday, not before the start, aligned to the
\* interval, not excepted).
Occurs(rule, dateKey, zone) ==
    LET startDate    == parseDateKey(rule.start_date)
        dayOfWeek    == getDay(startDate)
        intervalDays == IF rule.frequency = "fortnightly" THEN 14 ELSE 7
        currentDate  == parseDateKey(dateKey)
        diffMs       == getTime(currentDate, zone) - getTime(startDate, zone)
        diffDays     == MathRoundDiv(diffMs, HoursPerDay)
    IN  /\ getDay(currentDate) = dayOfWeek
        /\ ~(diffMs < 0)
        /\ diffDays % intervalDays = 0
        /\ ~Excepted(rule, dateKey)

\* EnsureSlot that replaces the day entry instead of keeping what is there
EnsureSlot_Reset(schedule, dateKey, teamId) ==
    Put(schedule, dateKey, EmptyDay)

\* The date entry and the team's slot are created when absent.
EnsureSlot(schedule, dateKey, teamId) ==
    LET s1 == IF dateKey \in DOMAIN schedule THEN schedule
              ELSE Put(schedule, dateKey, EmptyDay)
    IN  IF teamId \in DOMAIN s1[dateKey] THEN s1
        ELSE Put(s1, dateKey, Put(s1[dateKey], teamId, EmptySlot))

\* alreadyExists that compares the job's own id with the rule id
alreadyExists_ById(addresses, rule) ==
    \E i \in 1..Len(addresses) : addresses[i].id = rule.id

\* addresses.some(a => a.recurring_id === rule.id)
alreadyExists(addresses, rule) ==
    \E i \in 1..Len(addresses) : addresses[i].recurring_id = rule.id

\* A job instance that carries the address the rule was created with
VirtualJob_FirstAddress(rule, dateKey) ==
    [id           |-> InstanceId(rule.id, dateKey),
     recurring_id |-> rule.id,
     street       |-> "Oak Ave",
     house_number |-> "5",
     status       |-> "pending",
     is_recurring |-> TRUE,
     frequency    |-> rule.frequency]

\* The job instance created from the recurring template.
VirtualJob(rule, dateKey) ==
    [id           |-> InstanceId(rule.id, dateKey),
     recurring_id |-> rule.id,
     street       |-> rule.street,
     house_number |-> rule.house_number,
     status       |-> "pending",
     is_recurring |-> TRUE,
     frequency    |-> rule.frequency]

\* The body of the inner loop for one rule and one requested date key.
ProjectOne(schedule, rule, dateKey, zone) ==
    IF ~Occurs(rule, dateKey, zone) THEN schedule
    ELSE LET teamId == rule.team_id
             s2     == EnsureSlot(schedule, dateKey, teamId)
         IN  IF alreadyExists(s2[dateKey][teamId].addresses, rule) THEN s2
             ELSE [s2 EXCEPT ![dateKey][teamId].addresses =
                                Append(@, VirtualJob(rule, dateKey))]

\* for (const dateKey of requestedDateKeys), from position k on
RECURSIVE ProjectKeys(_, _, _, _, _)
ProjectKeys(schedule, rule, keys, k, zone) ==
    IF k > Len(keys) THEN schedule
    ELSE ProjectKeys(ProjectOne(schedule, rule, keys[k], zone),
                     rule, keys, k + 1, zone)

\* for (const rule of recurringJobs), from position i on
RECURSIVE ProjectRules(_, _, _, _, _)
ProjectRules(schedule, recurringJobs, keys, i, zone) ==
    IF i > Len(recurringJobs) THEN schedule
    ELSE ProjectRules(
            IF Paused(recurringJobs[i]) THEN schedule
            ELSE ProjectKeys(schedule, recurringJobs[i], keys, 1, zone),
            recurringJobs, keys, i + 1, zone)

projectRecurringJobs(schedule, recurringJobs, requestedDateKeys, zone) ==
    IF Len(recurringJobs) = 0 THEN schedule
    ELSE ProjectRules(schedule, recurringJobs, requestedDateKeys, 1, zone)

-----------------------------------------------------------------------------
(* redis-storage.js: the store.  store[key] is what readJSON(key) returns: *)
(* the value last written, or the default ([] or {}, both <<>> here) of a  *)
(* key never written.                                                      *)

ScheduleKey == "data/schedule.json"
RecurringKey == "data/recurring-jobs.json"
ClientsKey == "data/clients.json"
StoreKeys == {ScheduleKey, RecurringKey, ClientsKey}

readJSON(st, key) == st[key]

writeJSON(st, key, content) == [st EXCEPT ![key] = content]

-----------------------------------------------------------------------------
(* update-schedule.js: validation *)

\* /^\d{2}-\d{2}-\d{4}$/ on the key's three fields
MatchesDatePattern(dateStr) ==
    /\ Len(dateStr) = 3
    /\ dateStr[1] \in 0..99
    /\ dateStr[2] \in 0..99
    /\ dateStr[3] \in 0..9999

\* isValidDate without the comparison against the constructed Date
isValidDate_PatternOnly(dateStr) == MatchesDatePattern(dateStr)

isValidDate(dateStr) ==
    /\ MatchesDatePattern(dateStr)
    /\ CivilOf(DateOf(dateStr[3], dateStr[2] - 1, dateStr[1])) = dateStr

\* Date strings as text: the fields between the dashes, each field the
\* sequence of its characters, a digit 0..9 or NonDigit for any other one
NonDigit == 10

\* String(n) of a number n >= 0
RECURSIVE StringOf(_)
StringOf(n) == IF n < 10 THEN <<n>> ELSE Append(StringOf(n \div 10), n % 10)

\* String.prototype.padStart(len, '0')
padStart(str, len) ==
    IF Len(str) >= len THEN str ELSE [i \in 1..(len - Len(str)) |-> 0] \o str

\* Number(field) of a field of digits; Number('') is 0
RECURSIVE NumberOf(_)
NumberOf(field) ==
    IF field = <<>> THEN 0
    ELSE 10 * NumberOf(SubSeq(field, 1, Len(field) - 1)) + field[Len(field)]

\* dateStr.split('-').map(Number)
Fields(text) == [i \in 1..Len(text) |-> NumberOf(text[i])]

\* /^\d{2}-\d{2}-\d{4}$/.test(dateStr)
RegexTest(text) ==
    /\ Len(text) = 3
    /\ Len(text[1]) = 2 /\ Len(text[2]) = 2 /\ Len(text[3]) = 4
    /\ \A i \in 1..3 : \A k \in 1..Len(text[i]) : text[i][k] \in 0..9

\* isValidDate on the text of a string
isValidDateText(text) == RegexTest(text) /\ isValidDate(Fields(text))

\* The template literal of formatDateKey: day and month padded to two
\* characters, the year as String(getFullYear()) gives it
formatDateKeyText(date) ==
    <<padStart(StringOf(CivilOf(date)[1]), 2),
      padStart(StringOf(CivilOf(date)[2]), 2),
      StringOf(CivilOf(date)[3])>>

\* parseDateKey on the text of a key
parseDateKeyText(text) == parseDateKey(Fields(text))

isValidTeam(teamId) == teamId = "Team_A" \/ teamId = "Team_B"

\* Array.prototype.findIndex by job or rule id: the first position, 0 if none
FindIndex(seq, id) ==
    IF \E i \in 1..Len(seq) : seq[i].id = id
    THEN CHOOSE i \in 1..Len(seq) :
            /\ seq[i].id = id
            /\ \A k \in 1..(i - 1) : seq[k].id # id
    ELSE 0

\* Array.prototype.splice(idx, 1): the sequence without position idx
RemoveAt(seq, idx) ==
    [k \in 1..(Len(seq) - 1) |-> IF k < idx THEN seq[k] ELSE seq[k + 1]]

-----------------------------------------------------------------------------
(* update-schedule.js: the handlers, each from the store and the request   *)
(* to the response status, the store after the request, the keys written   *)
(* and the job (the rule, for the rule actions) of the response body.      *)

Result(status, st, writes, j) ==
    [status |-> status, store |-> st, writes |-> writes, job |-> j]

\* cancel-job that writes the schedule back on every success
cancelJob_AlwaysWrite(st, date, team_id, job_id) ==
    IF ~isValidDate(date) \/ ~isValidTeam(team_id) \/ job_id = NoId
    THEN Result(400, st, <<>>, NoJob)
    ELSE LET schedule == readJSON(st, ScheduleKey)
         IN  IF date \notin DOMAIN schedule \/ team_id \notin DOMAIN schedule[date]
             THEN Result(404, st, <<>>, NoJob)
             ELSE LET idx == FindIndex(schedule[date][team_id].addresses, job_id)
                      s2  == [schedule EXCEPT
                                ![date][team_id].addresses[idx].status = "cancelled"]
                  IN  IF idx = 0 THEN Result(404, st, <<>>, NoJob)
                      ELSE Result(200, writeJSON(st, ScheduleKey, s2),
                                  <<ScheduleKey>>, s2[date][team_id].addresses[idx])

\* cancel-job that removes the record instead of marking it
cancelJob_HardDelete(st, date, team_id, job_id) ==
    IF ~isValidDate(date) \/ ~isValidTeam(team_id) \/ job_id = NoId
    THEN Result(400, st, <<>>, NoJob)
    ELSE LET schedule == readJSON(st, ScheduleKey)
         IN  IF date \notin DOMAIN schedule \/ team_id \notin DOMAIN schedule[date]
             THEN Result(404, st, <<>>, NoJob)
             ELSE LET addresses == schedule[date][team_id].addresses
                      idx == FindIndex(addresses, job_id)
                      s2  == [schedule EXCEPT
                                ![date][team_id].addresses = RemoveAt(@, idx)]
                  IN  IF idx = 0 THEN Result(404, st, <<>>, NoJob)
                      ELSE IF addresses[idx].status # "cancelled"
                      THEN Result(200, writeJSON(st, ScheduleKey, s2), <<ScheduleKey>>,
                                  [addresses[idx] EXCEPT !.status = "cancelled"])
                      ELSE Result(200, st, <<>>, addresses[idx])

\* cancel-job that creates the date entry and the slot it does not find
cancelJob_Materialise(st, date, team_id, job_id) ==
    IF ~isValidDate(date) \/ ~isValidTeam(team_id) \/ job_id = NoId
    THEN Result(400, st, <<>>, NoJob)
    ELSE LET schedule == EnsureSlot(readJSON(st, ScheduleKey), date, team_id)
             addresses == schedule[date][team_id].addresses
             idx == FindIndex(addresses, job_id)
             s2  == [schedule EXCEPT
                       ![date][team_id].addresses[idx].status = "cancelled"]
         IN  IF idx = 0
             THEN Result(404, writeJSON(st, ScheduleKey, schedule), <<ScheduleKey>>, NoJob)
             ELSE IF addresses[idx].status # "cancelled"
             THEN Result(200, writeJSON(st, ScheduleKey, s2),
                         <<ScheduleKey>>, s2[date][team_id].addresses[idx])
             ELSE Result(200, st, <<>>, addresses[idx])

\* ACTION: cancel-job
cancelJob(st, date, team_id, job_id) ==
    IF ~isValidDate(date) THEN Result(400, st, <<>>, NoJob)
    ELSE IF ~isValidTeam(team_id) THEN Result(400, st, <<>>, NoJob)
    ELSE IF job_id = NoId THEN Result(400, st, <<>>, NoJob)
    ELSE LET schedule == readJSON(st, ScheduleKey)
         IN  IF date \notin DOMAIN schedule \/ team_id \notin DOMAIN schedule[date]
             THEN Result(404, st, <<>>, NoJob)
             ELSE IF "addresses" \notin DOMAIN schedule[date][team_id]
             THEN Result(404, st, <<>>, NoJob)
             ELSE LET addresses == schedule[date][team_id].addresses
                      idx == FindIndex(addresses, job_id)
                      s2  == [schedule EXCEPT
                                ![date][team_id].addresses[idx].status = "cancelled"]
                  IN  IF idx = 0 THEN Result(404, st, <<>>, NoJob)
                      ELSE IF addresses[idx].status # "cancelled"
                      THEN Result(200, writeJSON(st, ScheduleKey, s2),
                                  <<ScheduleKey>>, s2[date][team_id].addresses[idx])
                      ELSE Result(200, st, <<>>, addresses[idx])

\* delete-job that marks the job cancelled and keeps the record
deleteJob_Keep(st, date, team_id, job_id) == cancelJob(st, date, team_id, job_id)

\* delete-job that looks the job up in the projected schedule
deleteJob_Projected(st, date, team_id, job_id) ==
    IF ~isValidDate(date) \/ ~isValidTeam(team_id) \/ job_id = NoId
    THEN Result(400, st, <<>>, NoJob)
    ELSE LET schedule == projectRecurringJobs(readJSON(st, ScheduleKey),
                                              readJSON(st, RecurringKey),
                                              <<date>>, "UTC")
         IN  IF \/ date \notin DOMAIN schedule
                \/ team_id \notin DOMAIN schedule[date]
                \/ "addresses" \notin DOMAIN schedule[date][team_id]
             THEN Result(404, st, <<>>, NoJob)
             ELSE LET addresses == schedule[date][team_id].addresses
                      idx == FindIndex(addresses, job_id)
                      s2  == [schedule EXCEPT
                                ![date][team_id].addresses = RemoveAt(@, idx)]
                  IN  IF idx = 0 THEN Result(404, st, <<>>, NoJob)
                      ELSE Result(200, writeJSON(st, ScheduleKey, s2),
                                  <<ScheduleKey>>, addresses[idx])

\* ACTION: delete-job
deleteJob(st, date, team_id, job_id) ==
    IF ~isValidDate(date) \/ ~isValidTeam(team_id) \/ job_id = NoId
    THEN Result(400, st, <<>>, NoJob)
    ELSE LET schedule == readJSON(st, ScheduleKey)
         IN  IF \/ date \notin DOMAIN schedule
                \/ team_id \notin DOMAIN schedule[date]
                \/ "addresses" \notin DOMAIN schedule[date][team_id]
             THEN Result(404, st, <<>>, NoJob)
             ELSE LET addresses == schedule[date][team_id].addresses
                      idx == FindIndex(addresses, job_id)
                      s2  == [schedule EXCEPT
                                ![date][team_id].addresses = RemoveAt(@, idx)]
                  IN  IF idx = 0 THEN Result(404, st, <<>>, NoJob)
                      ELSE Result(200, writeJSON(st, ScheduleKey, s2),
                                  <<ScheduleKey>>, addresses[idx])

\* String.prototype.trim on the strings of the model
Trim(str) == IF str \in {" ", "  "} THEN "" ELSE str

\* add-recurring-job without the tests of team_id and frequency
addRecurringJob_Unchecked(st, n, body) ==
    IF \/ body.street = "" \/ body.house_number = "" \/ body.team_id = ""
       \/ body.start_date = <<>> \/ body.frequency = ""
    THEN Result(400, st, <<>>, NoJob)
    ELSE IF ~isValidDate(body.start_date) THEN Result(400, st, <<>>, NoJob)
    ELSE LET recurringJobs == readJSON(st, RecurringKey)
             newRule == [id           |-> Uuid(n + 1),
                         street       |-> Trim(body.street),
                         house_number |-> Trim(body.house_number),
                         team_id      |-> body.team_id,
                         start_date   |-> body.start_date,
                         frequency    |-> body.frequency,
                         exceptions   |-> <<>>,
                         paused       |-> FALSE,
                         created_at   |-> Instant(n + 1)]
         IN  Result(201, writeJSON(st, RecurringKey, Append(recurringJobs, newRule)),
                    <<RecurringKey>>, newRule)

\* ACTION: add-recurring-job; body is the request, n the UUIDs used so far
addRecurringJob(st, n, body) ==
    IF \/ body.street = "" \/ body.house_number = "" \/ body.team_id = ""
       \/ body.start_date = <<>> \/ body.frequency = ""
    THEN Result(400, st, <<>>, NoJob)
    ELSE IF ~isValidDate(body.start_date) THEN Result(400, st, <<>>, NoJob)
    ELSE IF ~isValidTeam(body.team_id) THEN Result(400, st, <<>>, NoJob)
    ELSE IF body.frequency \notin {"weekly", "fortnightly"}
    THEN Result(400, st, <<>>, NoJob)
    ELSE LET recurringJobs == readJSON(st, RecurringKey)
             newRule == [id           |-> Uuid(n + 1),
                         street       |-> Trim(body.street),
                         house_number |-> Trim(body.house_number),
                         team_id      |-> body.team_id,
                         start_date   |-> body.start_date,
                         frequency    |-> body.frequency,
                         exceptions   |-> <<>>,
                         paused       |-> FALSE,
                         created_at   |-> Instant(n + 1)]
         IN  Result(201, writeJSON(st, RecurringKey, Append(recurringJobs, newRule)),
                    <<RecurringKey>>, newRule)

\* The field updates of an edit-recurring-job that takes start_date and
\* exceptions from the request as well
ApplyPatch_Rebase(rule, body) ==
    [rule EXCEPT
        !.street       = IF "street" \in DOMAIN body THEN Trim(body.street) ELSE @,
        !.house_number = IF "house_number" \in DOMAIN body
                         THEN Trim(body.house_number) ELSE @,
        !.team_id      = IF "team_id" \in DOMAIN body /\ isValidTeam(body.team_id)
                         THEN body.team_id ELSE @,
        !.frequency    = IF "frequency" \in DOMAIN body
                            /\ body.frequency \in {"weekly", "fortnightly"}
                         THEN body.frequency ELSE @,
        !.paused       = IF "paused" \in DOMAIN body THEN body.paused ELSE @,
        !.start_date   = IF "start_date" \in DOMAIN body THEN body.start_date ELSE @,
        !.exceptions   = IF "exceptions" \in DOMAIN body THEN body.exceptions ELSE @]

\* The field updates of edit-recurring-job: a field changes when the request
\* body (a function on the names of the fields it carries) has it.
ApplyPatch(rule, body) ==
    [rule EXCEPT
        !.street       = IF "street" \in DOMAIN body THEN Trim(body.street) ELSE @,
        !.house_number = IF "house_number" \in DOMAIN body
                         THEN Trim(body.house_number) ELSE @,
        !.team_id      = IF "team_id" \in DOMAIN body /\ isValidTeam(body.team_id)
                         THEN body.team_id ELSE @,
        !.frequency    = IF "frequency" \in DOMAIN body
                            /\ body.frequency \in {"weekly", "fortnightly"}
                         THEN body.frequency ELSE @,
        !.paused       = IF "paused" \in DOMAIN body THEN body.paused ELSE @]

\* ACTION: edit-recurring-job
editRecurringJob(st, rule_id, body) ==
    IF rule_id = NoId THEN Result(400, st, <<>>, NoJob)
    ELSE LET recurringJobs == readJSON(st, RecurringKey)
             idx == FindIndex(recurringJobs, rule_id)
         IN  IF idx = 0 THEN Result(404, st, <<>>, NoJob)
             ELSE LET rule == ApplyPatch(recurringJobs[idx], body)
                  IN  Result(200,
                             writeJSON(st, RecurringKey,
                                       [recurringJobs EXCEPT ![idx] = rule]),
                             <<RecurringKey>>, rule)

\* delete-recurring-job that splices at the head of the list
deleteRecurringJob_Head(st, rule_id) ==
    IF rule_id = NoId THEN Result(400, st, <<>>, NoJob)
    ELSE LET recurringJobs == readJSON(st, RecurringKey)
             idx == FindIndex(recurringJobs, rule_id)
         IN  IF idx = 0 THEN Result(404, st, <<>>, NoJob)
             ELSE Result(200, writeJSON(st, RecurringKey, RemoveAt(recurringJobs, 1)),
                         <<RecurringKey>>, recurringJobs[1])

\* ACTION: delete-recurring-job
deleteRecurringJob(st, rule_id) ==
    IF rule_id = NoId THEN Result(400, st, <<>>, NoJob)
    ELSE LET recurringJobs == readJSON(st, RecurringKey)
             idx == FindIndex(recurringJobs, rule_id)
         IN  IF idx = 0 THEN Result(404, st, <<>>, NoJob)
             ELSE Result(200, writeJSON(st, RecurringKey, RemoveAt(recurringJobs, idx)),
                         <<RecurringKey>>, recurringJobs[idx])

\* cancel-recurring-instance that answers 404 for a date that is not valid
cancelRecurringInstance_NotFound(st, rule_id, date) ==
    IF rule_id = NoId THEN Result(400, st, <<>>, NoJob)
    ELSE LET recurringJobs == readJSON(st, RecurringKey)
             idx == FindIndex(recurringJobs, rule_id)
         IN  IF idx = 0 \/ ~isValidDate(date) THEN Result(404, st, <<>>, NoJob)
             ELSE LET rule == [recurringJobs[idx] EXCEPT
                                 !.exceptions =
                                    IF Includes(@, date) THEN @ ELSE Append(@, date)]
                  IN  Result(200,
                             writeJSON(st, RecurringKey,
                                       [recurringJobs EXCEPT ![idx] = rule]),
                             <<RecurringKey>>, rule)

\* cancel-recurring-instance that pushes the date without looking
cancelRecurringInstance_Push(st, rule_id, date) ==
    IF rule_id = NoId \/ ~isValidDate(date) THEN Result(400, st, <<>>, NoJob)
    ELSE LET recurringJobs == readJSON(st, RecurringKey)
             idx == FindIndex(recurringJobs, rule_id)
         IN  IF idx = 0 THEN Result(404, st, <<>>, NoJob)
             ELSE LET rule == [recurringJobs[idx] EXCEPT
                                 !.exceptions = Append(@, date)]
                  IN  Result(200,
                             writeJSON(st, RecurringKey,
                                       [recurringJobs EXCEPT ![idx] = rule]),
                             <<RecurringKey>>, rule)

\* ACTION: cancel-recurring-instance
cancelRecurringInstance(st, rule_id, date) ==
    IF rule_id = NoId \/ ~isValidDate(date) THEN Result(400, st, <<>>, NoJob)
    ELSE LET recurringJobs == readJSON(st, RecurringKey)
             idx == FindIndex(recurringJobs, rule_id)
         IN  IF idx = 0 THEN Result(404, st, <<>>, NoJob)
             ELSE LET rule == [recurringJobs[idx] EXCEPT
                                 !.exceptions =
                                    IF Includes(@, date) THEN @ ELSE Append(@, date)]
                  IN  Result(200,
                             writeJSON(st, RecurringKey,
                                       [recurringJobs EXCEPT ![idx] = rule]),
                             <<RecurringKey>>, rule)

WORKER_ROSTER ==
    {"Amylea", "Angelo", "Chloe", "George", "Leeroy", "Myka", "Nathan", "Olivia",
     "Tracy"}

\* validateWorkers without the roster test
validateWorkers_Any(workers) == \A i \in 1..Len(workers) : workers[i] = workers[i]

validateWorkers(workers) == \A i \in 1..Len(workers) : workers[i] \in WORKER_ROSTER

\* What an error message of a 400 response quotes: the name of the field at
\* fault and, where the message echoes it, the value at fault
NoError == [field |-> "", value |-> ""]
ErrorOf(field, value) == [field |-> field, value |-> value]

\* validateWorkers(...).message: the first name that is not in the roster
workersMessage(workers) ==
    LET i == CHOOSE i \in 1..Len(workers) :
                /\ workers[i] \notin WORKER_ROSTER
                /\ \A k \in 1..(i - 1) : workers[k] \in WORKER_ROSTER
    IN  IF validateWorkers(workers) THEN NoError
        ELSE ErrorOf("worker name", workers[i])

VALID_STATUSES == {"pending", "completed", "cancelled"}

\* address is [street, house_number, status]; "" stands for a missing field
validateAddress(address) ==
    /\ address.street # ""
    /\ address.house_number # ""
    /\ address.status # "" => address.status \in VALID_STATUSES

\* validateAddress(...).message without the test of status
addressMessage_AnyStatus(address) ==
    IF address.street = "" THEN ErrorOf("street", "")
    ELSE IF address.house_number = "" THEN ErrorOf("house_number", "")
    ELSE NoError

\* validateAddress(...).message
addressMessage(address) ==
    IF address.street = "" THEN ErrorOf("street", "")
    ELSE IF address.house_number = "" THEN ErrorOf("house_number", "")
    ELSE IF address.status # "" /\ address.status \notin VALID_STATUSES
    THEN ErrorOf("status", address.status)
    ELSE NoError

\* update-workers storing the new names behind the ones already assigned
updateWorkers_Merge(st, date, team_id, assigned_workers) ==
    IF ~isValidDate(date) THEN Result(400, st, <<>>, NoJob)
    ELSE IF ~isValidTeam(team_id) THEN Result(400, st, <<>>, NoJob)
    ELSE IF ~ArrayIsArray(assigned_workers) THEN Result(400, st, <<>>, NoJob)
    ELSE IF ~validateWorkers(assigned_workers.items)
    THEN Result(400, st, <<>>, NoJob)
    ELSE LET schedule == EnsureSlot(readJSON(st, ScheduleKey), date, team_id)
             s2 == [schedule EXCEPT
                      ![date][team_id].assigned_workers = @ \o assigned_workers.items]
         IN  Result(200, writeJSON(st, ScheduleKey, s2), <<ScheduleKey>>, NoJob)

\* POST action update-workers
updateWorkers(st, date, team_id, assigned_workers) ==
    IF ~isValidDate(date) THEN Result(400, st, <<>>, NoJob)
    ELSE IF ~isValidTeam(team_id) THEN Result(400, st, <<>>, NoJob)
    ELSE IF ~ArrayIsArray(assigned_workers) THEN Result(400, st, <<>>, NoJob)
    ELSE IF ~validateWorkers(assigned_workers.items)
    THEN Result(400, st, <<>>, NoJob)
    ELSE LET schedule == EnsureSlot(readJSON(st, ScheduleKey), date, team_id)
             s2 == [schedule EXCEPT
                      ![date][team_id] =
                          SetProp(@, "assigned_workers", assigned_workers.items)]
         IN  Result(200, writeJSON(st, ScheduleKey, Stringify(s2)),
                    <<ScheduleKey>>, NoJob)

\* The loop of clear-schedule-assignments over dates[i..]: a listed date that
\* the schedule holds has the assigned_workers of its teams emptied, a listed
\* date that it does not hold is passed over
RECURSIVE ClearLoop(_, _, _)
ClearLoop(schedule, dates, i) ==
    IF i > Len(dates) THEN schedule
    ELSE IF dates[i] \in DOMAIN schedule
    THEN ClearLoop([schedule EXCEPT ![dates[i]] =
                        [t \in DOMAIN @ |-> SetProp(@[t], "assigned_workers", <<>>)]],
                   dates, i + 1)
    ELSE ClearLoop(schedule, dates, i + 1)

\* clear-schedule-assignments writing whether or not it changed anything
clearAssignments_AlwaysWrite(st, dates) ==
    IF ~ArrayIsArray(dates) \/ Len(dates.items) = 0
    THEN Result(400, st, <<>>, NoJob) @@ [reads |-> <<>>]
    ELSE LET schedule == readJSON(st, ScheduleKey)
             s2 == ClearLoop(schedule, dates.items, 1)
         IN  Result(200, writeJSON(st, ScheduleKey, s2), <<ScheduleKey>>, NoJob)
                @@ [reads |-> <<ScheduleKey>>]

\* POST action clear-schedule-assignments; reads lists the keys it read
clearAssignments(st, dates) ==
    IF ~ArrayIsArray(dates) \/ Len(dates.items) = 0
    THEN Result(400, st, <<>>, NoJob) @@ [reads |-> <<>>]
    ELSE LET schedule == readJSON(st, ScheduleKey)
             modified == \E i \in 1..Len(dates.items) :
                            dates.items[i] \in DOMAIN schedule
             s2 == ClearLoop(schedule, dates.items, 1)
         IN  IF modified
             THEN Result(200, writeJSON(st, ScheduleKey, Stringify(s2)),
                         <<ScheduleKey>>, NoJob)
                    @@ [reads |-> <<ScheduleKey>>]
             ELSE Result(200, st, <<>>, NoJob) @@ [reads |-> <<ScheduleKey>>]

\* add-job without the check of selected_workers
addJobError_SkipWorkers(date, team_id, address, selected_workers) ==
    IF ~isValidDate(date) THEN ErrorOf("date", "")
    ELSE IF ~isValidTeam(team_id) THEN ErrorOf("team_id", "")
    ELSE IF ~validateAddress(address) THEN addressMessage(address)
    ELSE NoError

\* The error of the 400 response of add-job, NoError when the request passes
addJobError(date, team_id, address, selected_workers) ==
    IF ~isValidDate(date) THEN ErrorOf("date", "")
    ELSE IF ~isValidTeam(team_id) THEN ErrorOf("team_id", "")
    ELSE IF ~validateAddress(address) THEN addressMessage(address)
    ELSE workersMessage(selected_workers)

\* ACTION: add-job (default); n is the number of UUIDs used so far
\* add-job putting the new job in front of the slot's list
addJob_Prepend(st, n, date, team_id, address, selected_workers) ==
    IF addJobError(date, team_id, address, selected_workers) # NoError
    THEN Result(400, st, <<>>, NoJob)
    ELSE LET schedule == EnsureSlot(readJSON(st, ScheduleKey), date, team_id)
             newJob == [id           |-> Uuid(n + 1),
                        recurring_id |-> NoId,
                        street       |-> address.street,
                        house_number |-> address.house_number,
                        status       |-> IF address.status # "" THEN address.status
                                         ELSE "pending",
                        is_recurring |-> FALSE,
                        frequency    |-> "undefined"]
             s2 == [schedule EXCEPT
                      ![date][team_id].addresses = <<newJob>> \o @,
                      ![date][team_id].assigned_workers =
                          IF Len(selected_workers) > 0 THEN selected_workers ELSE @]
         IN  Result(201, writeJSON(st, ScheduleKey, s2), <<ScheduleKey>>, newJob)

\* add-job that copies the recurring fields of the address into the job
addJob_Spread(st, n, date, team_id, address, selected_workers) ==
    IF addJobError(date, team_id, address, selected_workers) # NoError
    THEN Result(400, st, <<>>, NoJob)
    ELSE LET schedule == EnsureSlot(readJSON(st, ScheduleKey), date, team_id)
             newJob == [id           |-> Uuid(n + 1),
                        recurring_id |-> IF "recurring_id" \in DOMAIN address
                                         THEN address.recurring_id ELSE NoId,
                        street       |-> address.street,
                        house_number |-> address.house_number,
                        status       |-> IF address.status # "" THEN address.status
                                         ELSE "pending",
                        is_recurring |-> IF "is_recurring" \in DOMAIN address
                                         THEN address.is_recurring ELSE FALSE,
                        frequency    |-> "undefined"]
             slot0 == schedule[date][team_id]
             slot1 == IF "assigned_workers" \in DOMAIN slot0 THEN slot0
                      ELSE SetProp(slot0, "assigned_workers", <<>>)
             slot2 == IF "addresses" \in DOMAIN slot1 THEN slot1
                      ELSE SetProp(slot1, "addresses", <<>>)
             slot3 == [slot2 EXCEPT
                         !.addresses = Append(@, newJob),
                         !.assigned_workers =
                             IF Len(selected_workers) > 0 THEN selected_workers ELSE @]
             s2 == [schedule EXCEPT ![date][team_id] = slot3]
         IN  Result(201, writeJSON(st, ScheduleKey, Stringify(s2)),
                    <<ScheduleKey>>, newJob)

addJob(st, n, date, team_id, address, selected_workers) ==
    IF addJobError(date, team_id, address, selected_workers) # NoError
    THEN Result(400, st, <<>>, NoJob)
    ELSE LET schedule == EnsureSlot(readJSON(st, ScheduleKey), date, team_id)
             newJob == [id           |-> Uuid(n + 1),
                        recurring_id |-> NoId,
                        street       |-> address.street,
                        house_number |-> address.house_number,
                        status       |-> IF address.status # "" THEN address.status
                                         ELSE "pending",
                        is_recurring |-> FALSE,
                        frequency    |-> "undefined"]
             slot0 == schedule[date][team_id]
             slot1 == IF "assigned_workers" \in DOMAIN slot0 THEN slot0
                      ELSE SetProp(slot0, "assigned_workers", <<>>)
             slot2 == IF "addresses" \in DOMAIN slot1 THEN slot1
                      ELSE SetProp(slot1, "addresses", <<>>)
             slot3 == [slot2 EXCEPT
                         !.addresses = Append(@, newJob),
                         !.assigned_workers =
                             IF Len(selected_workers) > 0 THEN selected_workers ELSE @]
             s2 == [schedule EXCEPT ![date][team_id] = slot3]
         IN  Result(201, writeJSON(st, ScheduleKey, Stringify(s2)),
                    <<ScheduleKey>>, newJob)

-----------------------------------------------------------------------------
(* get-schedule.js: the read path *)

DefaultDays == 7
Today == DateOf(2026, 1, 28)    \* the day of the request: Saturday 28-02-2026

generateDefaultSchedule ==
    [d \in {formatDateKey(Today + i) : i \in 0..(DefaultDays - 1)} |-> EmptyDay]

\* readSchedule that drops the jobs of a team value in the old format
readSchedule_DropLegacy(st, failing) ==
    LET schedule == readJSON(st, ScheduleKey)
    IN  IF ScheduleKey \in failing \/ DOMAIN schedule = {}
        THEN generateDefaultSchedule
        ELSE [d \in DOMAIN schedule |->
                [t \in DOMAIN schedule[d] |->
                    IF ArrayIsArray(schedule[d][t]) THEN EmptySlot
                    ELSE schedule[d][t]]]

\* readSchedule: the stored schedule with team values of the old format
\* converted, or the default window when the schedule is empty or missing
\* or when its read throws; failing is the set of keys whose read throws
readSchedule(st, failing) ==
    LET schedule == readJSON(st, ScheduleKey)
    IN  IF ScheduleKey \in failing \/ DOMAIN schedule = {}
        THEN generateDefaultSchedule
        ELSE [d \in DOMAIN schedule |->
                [t \in DOMAIN schedule[d] |->
                    IF ArrayIsArray(schedule[d][t])
                    THEN Slot(<<>>, schedule[d][t].items)
                    ELSE schedule[d][t]]]

\* The from/to loop of the handler: every date of the range gets an entry.
\* params is <<>> or [from |-> key, to |-> key].
PadRange(schedule, params) ==
    IF "from" \in DOMAIN params /\ "to" \in DOMAIN params
    THEN LET range == {formatDateKey(c) :
                          c \in parseDateKey(params.from)..parseDateKey(params.to)}
         IN  [d \in DOMAIN schedule \cup range |->
                 IF d \in DOMAIN schedule THEN schedule[d] ELSE EmptyDay]
    ELSE schedule

\* The keys of a set as a list in the order of their day numbers
RECURSIVE ListByDay(_, _)
ListByDay(keys, day) ==
    IF keys = {} THEN <<>>
    ELSE LET first == CHOOSE d \in keys : \A e \in keys : day[d] <= day[e]
         IN  <<first>> \o ListByDay(keys \ {first}, day)

\* Object.keys(schedule) as a list, here in calendar order
KeyList(keys) == ListByDay(keys, [d \in keys |-> parseDateKey(d)])

\* The response body of get-schedule when the reads of the keys in failing
\* throw: a failed read of the rules is caught and leaves the schedule
\* without projection
ScheduleBodyWhen(st, params, zone, failing) ==
    LET schedule == PadRange(readSchedule(st, failing), params)
        recurringJobs == IF RecurringKey \in failing THEN <<>>
                         ELSE readJSON(st, RecurringKey)
    IN  IF Len(recurringJobs) > 0
        THEN projectRecurringJobs(schedule, recurringJobs,
                                  KeyList(DOMAIN schedule), zone)
        ELSE schedule

\* The response body of get-schedule when the store answers
ScheduleBody(st, params, zone) == ScheduleBodyWhen(st, params, zone, {})

\* get-schedule that stores the snapshot it returns
getSchedule_Persist(st, params, zone, failing) ==
    [status |-> 200,
     store  |-> writeJSON(st, ScheduleKey, ScheduleBody(st, params, zone)),
     writes |-> <<ScheduleKey>>,
     body   |-> ScheduleBody(st, params, zone)]

\* get-schedule that lets a failed read of the schedule reach the caller
getSchedule_Propagate(st, params, zone, failing) ==
    IF ScheduleKey \in failing
    THEN [status |-> 500, store |-> st, writes |-> <<>>, body |-> <<>>]
    ELSE [status |-> 200, store |-> st, writes |-> <<>>,
          body |-> ScheduleBodyWhen(st, params, zone, failing)]

\* get-schedule without the inner try around the read of the rules
getSchedule_Unguarded(st, params, zone, failing) ==
    IF RecurringKey \in failing
    THEN [status |-> 500, store |-> st, writes |-> <<>>, body |-> <<>>]
    ELSE [status |-> 200, store |-> st, writes |-> <<>>,
          body |-> ScheduleBodyWhen(st, params, zone, failing)]

\* exports.handler of get-schedule.js (GET)
getSchedule(st, params, zone, failing) ==
    [status |-> 200, store |-> st, writes |-> <<>>,
     body |-> ScheduleBodyWhen(st, params, zone, failing)]

-----------------------------------------------------------------------------
(* The system: one request at a time against the store *)

MaxWrites == 2      \* store writes in a behaviour

\* A stored schedule with a cancelled job, a job placed by hand for rule 4
\* under the other team, and a date whose Team_B slot was never created.
SeedSchedule ==
    (D1 :> ("Team_A" :> Slot(<<"Amylea", "Angelo">>,
                             <<PlainJob(1, "pending"), PlainJob(2, "cancelled")>>)
            @@ "Team_B" :> Slot(<<>>, <<PlacedJob(3, 4, "pending")>>)))
    @@ (D2 :> ("Team_A" :> Slot(<<"Chloe">>, <<>>)))

SeedRules == <<Rule(4, "Team_A", D1, "weekly", <<>>, FALSE)>>

SeedIds == {1, 2, 3, 4}

EmptyStore == [k \in StoreKeys |-> <<>>]

SeedStore ==
    [EmptyStore EXCEPT ![ScheduleKey] = SeedSchedule, ![RecurringKey] = SeedRules]

BadDate == <<31, 2, 2026>>      \* matches the pattern, names no calendar day

\* The ids of the jobs of a schedule, and of the rules of a rule list
JobIdsOf(schedule) ==
    UNION { { JobsOf(schedule[d][t])[k].id :
                k \in 1..Len(JobsOf(schedule[d][t])) } :
            <<d, t>> \in { <<d, t>> \in (DOMAIN schedule) \X Teams :
                             t \in DOMAIN schedule[d] } }

RuleIdsOf(recurringJobs) == { recurringJobs[i].id : i \in 1..Len(recurringJobs) }

\* Requests: ids the client has seen, an id nobody has, the id of a
\* projected instance; valid dates and one that is not.
UnknownId == Uuid(99)
ReqDates == {D1, D2, BadDate}
ReqJobIds ==
    JobIdsOf(store[ScheduleKey]) \cup {UnknownId, InstanceId(Uuid(4), D1)}
ReqJobs ==      \* <<date, team_id, job_id>> of cancel-job and delete-job
    { rq \in {D1, D2} \X Teams \X ReqJobIds :
        \/ rq[1] = D1 /\ rq[2] = "Team_B"
        \/ /\ rq[1] \in DOMAIN store[ScheduleKey]
           /\ rq[2] \in DOMAIN store[ScheduleKey][rq[1]]
           /\ \E k \in 1..Len(JobsOf(store[ScheduleKey][rq[1]][rq[2]])) :
                 JobsOf(store[ScheduleKey][rq[1]][rq[2]])[k].id = rq[3] }
    \cup {<<D1, "Team_A", InstanceId(Uuid(4), D1)>>,
          <<D2, "Team_B", UnknownId>>,
          <<BadDate, "Team_A", UnknownId>>}
ReqRuleIds == RuleIdsOf(store[RecurringKey]) \cup {UnknownId}
ReqAddresses == {[street |-> "Main Street", house_number |-> "42", status |-> ""]}
GoodAddress == [street |-> "Main Street", house_number |-> "42", status |-> ""]
Malformed == <<2026, 3, 2>>     \* "2026-03-02": not the 2-2-4 digit pattern
ReqAddJobs ==   \* <<date, team_id, address, selected_workers>> of add-job
    {<<D1, "Team_A", GoodAddress, <<>>>>,
     <<D2, "Team_B", GoodAddress, <<"Chloe">>>>,
     <<BadDate, "Team_A", GoodAddress, <<>>>>,
     <<Malformed, "Team_A", GoodAddress, <<>>>>,
     <<D1, "Team_C", GoodAddress, <<>>>>,
     <<D1, "Team_A", [GoodAddress EXCEPT !.street = ""], <<>>>>,
     <<D1, "Team_A", [GoodAddress EXCEPT !.house_number = ""], <<>>>>,
     <<D1, "Team_A", [GoodAddress EXCEPT !.status = "done"], <<>>>>,
     <<D1, "Team_A", GoodAddress, <<"Zed">>>>,
     <<D2, "Team_B", GoodAddress, <<"Chloe", "Zed", "Zoe">>>>}
ReqWorkers ==   \* <<date, team_id, assigned_workers>> of update-workers
    {<<D1, "Team_A", JsArray(<<>>)>>,
     <<D2, "Team_B", JsArray(<<"George", "Leeroy">>)>>,
     <<BadDate, "Team_A", JsArray(<<"Chloe">>)>>,
     <<Malformed, "Team_A", JsArray(<<"Chloe">>)>>,
     <<D1, "Team_C", JsArray(<<"Chloe">>)>>,
     <<D1, "Team_A", NotAnArray>>,
     <<D1, "Team_A", JsArray(<<"Chloe", "Zed">>)>>}

ReqClears ==    \* dates of clear-schedule-assignments
    {JsArray(<<D1>>), JsArray(<<D3, D2, D1>>), JsArray(<<D3>>), JsArray(<<>>),
     NotAnArray}

ReqRules ==
    [street : {"Oak Ave"}, house_number : {"5"}, team_id : {"Team_B"},
     start_date : {D2, BadDate}, frequency : {"weekly"}]
ReqPatches ==
    {[f \in {"paused"} |-> b] : b \in BOOLEAN} \cup {[f \in {"team_id"} |-> "Team_B"]}
ReqParams == {<<>>, [from |-> D1, to |-> D2]}
ReqReads ==     \* <<query parameters, keys whose read throws>> of get-schedule
    (ReqParams \X {{}}) \cup {<<<<>>, {ScheduleKey}>>}

IdleResp == [op |-> "none", status |-> 0, writes |-> <<>>]

harnessVars == <<p_in, p_out, p_prev, p_pc>>

Init ==
    /\ store \in {EmptyStore, SeedStore}
    /\ nextId = Cardinality(SeedIds)
    /\ nWrites = 0
    /\ resp = IdleResp
    /\ snapshot = <<>>
    /\ job = NoJob
    /\ tz = "UTC"
    /\ p_in = [schedule |-> <<>>, rules |-> <<>>, keys |-> <<>>]
    /\ p_out = <<>>
    /\ p_prev = <<>>
    /\ p_pc = "idle"

\* A store written before assigned_workers existed: team values that are
\* bare lists of jobs, next to one in the current format
LegacySchedule ==
    (D1 :> [t \in Teams |->
              IF t = "Team_A"
              THEN JsArray(<<PlainJob(1, "pending"), PlainJob(2, "cancelled")>>)
              ELSE Slot(<<"Chloe">>, <<PlainJob(3, "pending")>>)])
    @@ (D2 :> [t \in {"Team_A"} |-> JsArray(<<>>)])

LegacyStore == [SeedStore EXCEPT ![ScheduleKey] = LegacySchedule]

LInit ==
    /\ store = LegacyStore
    /\ nextId = Cardinality(SeedIds)
    /\ nWrites = 0
    /\ resp = IdleResp
    /\ snapshot = <<>>
    /\ job = NoJob
    /\ tz = "UTC"
    /\ p_in = [schedule |-> <<>>, rules |-> <<>>, keys |-> <<>>]
    /\ p_out = <<>>
    /\ p_prev = <<>>
    /\ p_pc = "idle"

\* The response to a request for action op whose handler returned r
Respond(op, r) ==
    /\ nWrites + Len(r.writes) <= MaxWrites
    /\ resp' = [op |-> op, status |-> r.status, writes |-> r.writes]
    /\ nWrites' = nWrites + Len(r.writes)
    /\ store' = r.store
    /\ UNCHANGED <<tz, harnessVars>>

GetSchedule(params, failing) ==
    \E r \in {getSchedule(store, params, tz, failing)} :
        /\ Respond("get-schedule", r)
        /\ snapshot' = r.body
        /\ job' = NoJob
        /\ UNCHANGED nextId

CancelJob(date, team_id, job_id) ==
    \E r \in {cancelJob(store, date, team_id, job_id)} :
        /\ Respond("cancel-job", r)
        /\ job' = r.job
        /\ snapshot' = <<>>
        /\ UNCHANGED nextId

DeleteJob(date, team_id, job_id) ==
    \E r \in {deleteJob(store, date, team_id, job_id)} :
        /\ Respond("delete-job", r)
        /\ job' = r.job
        /\ snapshot' = <<>>
        /\ UNCHANGED nextId

AddJob(date, team_id, address, selected_workers) ==
    \E r \in {addJob(store, nextId, date, team_id, address, selected_workers)} :
        /\ Respond("add-job", r)
        /\ job' = r.job
        /\ snapshot' = <<>>
        /\ nextId' = IF r.status = 201 THEN nextId + 1 ELSE nextId

AddRecurringJob(body) ==
    \E r \in {addRecurringJob(store, nextId, body)} :
        /\ Respond("add-recurring-job", r)
        /\ job' = r.job
        /\ snapshot' = <<>>
        /\ nextId' = IF r.status = 201 THEN nextId + 1 ELSE nextId

EditRecurringJob(rule_id, body) ==
    \E r \in {editRecurringJob(store, rule_id, body)} :
        /\ Respond("edit-recurring-job", r)
        /\ job' = r.job
        /\ snapshot' = <<>>
        /\ UNCHANGED nextId

DeleteRecurringJob(rule_id) ==
    \E r \in {deleteRecurringJob(store, rule_id)} :
        /\ Respond("delete-recurring-job", r)
        /\ job' = r.job
        /\ snapshot' = <<>>
        /\ UNCHANGED nextId

CancelRecurringInstance(rule_id, date) ==
    \E r \in {cancelRecurringInstance(store, rule_id, date)} :
        /\ Respond("cancel-recurring-instance", r)
        /\ job' = r.job
        /\ snapshot' = <<>>
        /\ UNCHANGED nextId

UpdateWorkers(date, team_id, assigned_workers) ==
    \E r \in {updateWorkers(store, date, team_id, assigned_workers)} :
        /\ Respond("update-workers", r)
        /\ job' = r.job
        /\ snapshot' = <<>>
        /\ nextId' = nextId

ClearAssignments(dates) ==
    \E r \in {clearAssignments(store, dates)} :
        /\ Respond("clear-schedule-assignments", r)
        /\ job' = r.job
        /\ snapshot' = <<>>
        /\ nextId' = nextId

Next ==
    \/ \E dates \in ReqClears : ClearAssignments(dates)
    \/ \E rq \in ReqWorkers : UpdateWorkers(rq[1], rq[2], rq[3])
    \/ \E rq \in ReqReads : GetSchedule(rq[1], rq[2])
    \/ \E rq \in ReqJobs : CancelJob(rq[1], rq[2], rq[3])
    \/ \E rq \in ReqJobs : DeleteJob(rq[1], rq[2], rq[3])
    \/ \E rq \in ReqAddJobs : AddJob(rq[1], rq[2], rq[3], rq[4])
    \/ \E body \in ReqRules : AddRecurringJob(body)
    \/ \E rule_id \in ReqRuleIds, body \in ReqPatches :
          EditRecurringJob(rule_id, body)
    \/ \E rule_id \in ReqRuleIds : DeleteRecurringJob(rule_id)
    \/ \E rule_id \in ReqRuleIds, date \in ReqDates :
          CancelRecurringInstance(rule_id, date)

Spec == Init /\ [][Next]_vars

SpecLegacy == LInit /\ [][Next]_vars

\* The rule requests in full: the bodies of add-recurring-job with each
\* required field missing or invalid in turn, and the patches of
\* edit-recurring-job field by field
GoodRule ==
    [street |-> "Oak Ave", house_number |-> "5", team_id |-> "Team_B",
     start_date |-> D2, frequency |-> "weekly"]
RuleBodies ==
    {GoodRule,
     [GoodRule EXCEPT !.frequency = "fortnightly"],
     [GoodRule EXCEPT !.street = " "],
     [GoodRule EXCEPT !.street = ""],
     [GoodRule EXCEPT !.house_number = ""],
     [GoodRule EXCEPT !.team_id = ""],
     [GoodRule EXCEPT !.team_id = "Team_C"],
     [GoodRule EXCEPT !.start_date = <<>>],
     [GoodRule EXCEPT !.start_date = BadDate],
     [GoodRule EXCEPT !.start_date = Malformed],
     [GoodRule EXCEPT !.frequency = ""],
     [GoodRule EXCEPT !.frequency = "monthly"]}
\* A patch that also carries the fields edit-recurring-job does not read
FrozenPatch ==
    [street |-> "Mill Lane", id |-> Uuid(9), start_date |-> D2,
     exceptions |-> <<D1>>, created_at |-> Instant(9)]
RulePatches ==
    {<<>>,
     [f \in {"paused"} |-> TRUE],
     [f \in {"paused"} |-> FALSE],
     [f \in {"team_id"} |-> "Team_B"],
     [f \in {"team_id"} |-> "Team_C"],
     [f \in {"frequency"} |-> "fortnightly"],
     [f \in {"frequency"} |-> "monthly"],
     [f \in {"street"} |-> "Elm Road"],
     [f \in {"street"} |-> " "],
     [f \in {"house_number"} |-> "7"],
     [f \in {"house_number"} |-> ""],
     [street |-> "Elm Road", house_number |-> "7", team_id |-> "Team_B",
      frequency |-> "fortnightly", paused |-> TRUE],
     FrozenPatch,
     [f \in DOMAIN FrozenPatch \ {"street"} |-> FrozenPatch[f]]}

RuleReads ==    \* the reads of ReqReads and one whose read of the rules throws
    ReqReads \cup {<<[from |-> D1, to |-> D2], {RecurringKey}>>}

RNext ==
    \/ \E rq \in RuleReads : GetSchedule(rq[1], rq[2])
    \/ \E rq \in ReqAddJobs : AddJob(rq[1], rq[2], rq[3], rq[4])
    \/ \E body \in RuleBodies : AddRecurringJob(body)
    \/ \E rule_id \in ReqRuleIds, body \in RulePatches :
          EditRecurringJob(rule_id, body)

SpecRules == Init /\ [][RNext]_vars

-----------------------------------------------------------------------------
(* Inputs of the projection harness *)

PDates == {D1, D2, D3, D4, D5}

\* The rules tried for id Uuid(n): for each team and frequency an active rule
\* from D1, a paused one, and one that starts a week later (on D2) with its
\* first occurrence excepted.
PRuleSpace(n) ==
    UNION { { Rule(n, t, D1, f, <<>>, FALSE),
              Rule(n, t, D1, f, <<>>, TRUE),
              Rule(n, t, D2, f, <<D2>>, FALSE) } :
            t \in Teams, f \in Frequencies }

\* Rule lists of up to MaxRules rules; the rule at position i has id Uuid(i).
PRuleLists ==
    UNION { { c \in [1..len -> UNION {PRuleSpace(n) : n \in 1..len}] :
                \A i \in 1..len : c[i].id = Uuid(i) } :
            len \in 0..MaxRules }

\* Key lists: every list of up to MaxKeys of four of the dates (a date may
\* repeat), and the lists of the two scenarios
PKeyLists ==
    UNION { [1..len -> PDates \ {D3}] : len \in 0..MaxKeys }
      \cup { <<D1, D2, D3>>, <<D1, D2, D4, D5>> }

PScheduleA ==
    (D1 :> EmptyDay)
    @@ (D2 :> ("Team_B" :> Slot(<<"Amylea">>,
                                <<PlainJob(8, "pending"), PlacedJob(9, 1, "completed")>>)))
    @@ (D4 :> ("Team_A" :> Slot(<<>>, <<PlacedJob(7, 2, "pending")>>)
               @@ "Team_B" :> Slot(<<"Chloe">>,
                                   <<PlacedJob(6, 1, "cancelled"), PlainJob(5, "pending")>>)))

-----------------------------------------------------------------------------
(* The projection harness: projectRecurringJobs applied to bounded inputs, *)
(* then once more to its own output.                                       *)

sysVars == <<store, nextId, nWrites, resp, snapshot, job>>

PInit ==
    /\ store = [k \in StoreKeys |-> <<>>]
    /\ nextId = 0
    /\ nWrites = 0
    /\ resp = IdleResp
    /\ snapshot = <<>>
    /\ job = NoJob
    /\ tz = "Europe"
    /\ p_in \in [schedule : {PScheduleA}, rules : PRuleLists, keys : PKeyLists]
    /\ p_out = <<>>
    /\ p_prev = <<>>
    /\ p_pc = "input"

PProject ==
    /\ p_pc = "input"
    /\ p_prev' = p_in.schedule
    /\ p_out' = projectRecurringJobs(p_in.schedule, p_in.rules, p_in.keys, tz)
    /\ p_pc' = "once"
    /\ UNCHANGED <<sysVars, tz, p_in>>

PProjectAgain ==
    /\ p_pc = "once"
    /\ p_prev' = p_out
    /\ p_out' = projectRecurringJobs(p_out, p_in.rules, p_in.keys, tz)
    /\ p_pc' = "twice"
    /\ UNCHANGED <<sysVars, tz, p_in>>

\* The date codec on its own: a Date is formatted and the key parsed back, a
\* string is validated
MaxOffset == 2
CAnchors ==
    {MakeDay(50, 0, 1), MakeDay(99, 11, 30), MakeDay(100, 0, 1),
     MakeDay(999, 11, 30), MakeDay(1900, 1, 27), MakeDay(2000, 1, 27),
     MakeDay(2024, 1, 27), MakeDay(2026, 1, 27), MakeDay(2026, 2, 29),
     MakeDay(2026, 3, 29), MakeDay(2026, 11, 30), MakeDay(9999, 11, 29)}
CDates == { a + k : a \in CAnchors, k \in 0..MaxOffset }
CTexts ==
    { <<padStart(StringOf(d), 2), padStart(StringOf(m), 2), padStart(StringOf(y), 4)>> :
        d \in {0, 1, 28, 29, 30, 31, 32}, m \in {0, 1, 2, 4, 12, 13},
        y \in {50, 1900, 2024, 2026} }
    \cup { <<<<2>>, <<3>>, <<2, 0, 2, 6>>>>,
           <<<<0, 2>>, <<0, 3>>, <<2, 6>>>>,
           <<<<2, 0, 2, 6>>, <<0, 3>>, <<0, 2>>>>,
           <<<<0, 2>>, <<0, 3>>, <<2, 0, 2, 6>>, <<>>>>,
           <<<<0, 2>>, <<0, 3>>, <<2, 0, 2, NonDigit>>>>,
           <<<<0, 2>>, <<0, 3, 2, 0, 2, 6>>>>,
           <<<<>>>> }
CInputs ==
    { [kind |-> "date", date |-> d, text |-> <<>>] : d \in CDates }
    \cup { [kind |-> "text", date |-> 0, text |-> t] : t \in CTexts }

CInit ==
    /\ store = [k \in StoreKeys |-> <<>>]
    /\ nextId = 0
    /\ nWrites = 0
    /\ resp = IdleResp
    /\ snapshot = <<>>
    /\ job = NoJob
    /\ tz = "UTC"
    /\ p_in \in CInputs
    /\ p_out = [text |-> <<>>, date |-> 0, valid |-> FALSE]
    /\ p_prev = <<>>
    /\ p_pc = "input"

CFormat ==
    /\ p_pc = "input"
    /\ p_in.kind = "date"
    /\ p_out' = [p_out EXCEPT !.text = formatDateKeyText(p_in.date)]
    /\ p_pc' = "formatted"
    /\ UNCHANGED <<sysVars, tz, p_in, p_prev>>

CParse ==
    /\ p_pc = "formatted"
    /\ p_out' = [p_out EXCEPT !.date = parseDateKeyText(p_out.text)]
    /\ p_pc' = "parsed"
    /\ UNCHANGED <<sysVars, tz, p_in, p_prev>>

CValidate ==
    /\ p_pc \in {"input", "formatted"}
    /\ p_out' = [p_out EXCEPT !.valid =
                    isValidDateText(IF p_pc = "input" THEN p_in.text ELSE p_out.text)]
    /\ p_pc' = IF p_pc = "input" THEN "validated" ELSE "format-validated"
    /\ p_pc = "input" => p_in.kind = "text"
    /\ UNCHANGED <<sysVars, tz, p_in, p_prev>>

CNext == CFormat \/ CParse \/ CValidate

SpecCodec == CInit /\ [][CNext]_vars

\* Two add-job requests in flight at once.  Each invocation of the function
\* validates, awaits readJSON, changes its own copy of the schedule and
\* awaits writeJSON; the store takes the reads and writes one at a time, in
\* any order across the two invocations.
Racers == {"A", "B"}
RaceJobs ==     \* <<date, team_id, address, selected_workers>>
    {<<D1, "Team_A", GoodAddress, <<>>>>,
     <<D2, "Team_B", [GoodAddress EXCEPT !.street = "Elm Road"], <<"Chloe">>>>,
     <<BadDate, "Team_A", GoodAddress, <<>>>>}

RaceInit ==
    /\ store \in {EmptyStore, SeedStore}
    /\ nextId = Cardinality(SeedIds)
    /\ nWrites = 0
    /\ resp = IdleResp
    /\ snapshot = <<>>
    /\ job = NoJob
    /\ tz = "UTC"
    /\ p_in \in [Racers -> RaceJobs]
    /\ p_out = [c \in Racers |-> <<>>]
    /\ p_prev = [trace  |-> <<>>,
                 status |-> [c \in Racers |-> 0],
                 job    |-> [c \in Racers |-> NoJob]]
    /\ p_pc = [c \in Racers |-> "start"]

\* The schedule a racer works on between its read and its write: the value
\* its readJSON returned
ScheduleHeld_Fresh(c) == readJSON(store, ScheduleKey)

ScheduleHeld(c) == p_out[c]

\* The validation failed: the racer answers 400 and never reads
RaceReject(c) ==
    /\ p_pc[c] = "start"
    /\ addJobError(p_in[c][1], p_in[c][2], p_in[c][3], p_in[c][4]) # NoError
    /\ p_pc' = [p_pc EXCEPT ![c] = "done"]
    /\ p_prev' = [p_prev EXCEPT !.status[c] = 400]
    /\ UNCHANGED <<sysVars, tz, p_in, p_out>>

\* await readJSON('data/schedule.json')
RaceRead(c) ==
    /\ p_pc[c] = "start"
    /\ addJobError(p_in[c][1], p_in[c][2], p_in[c][3], p_in[c][4]) = NoError
    /\ p_out' = [p_out EXCEPT ![c] = readJSON(store, ScheduleKey)]
    /\ p_pc' = [p_pc EXCEPT ![c] = "read"]
    /\ p_prev' = [p_prev EXCEPT !.trace = Append(@, <<"read", c>>)]
    /\ UNCHANGED <<sysVars, tz, p_in>>

\* The rest of the handler: the job is pushed onto the held schedule, which
\* writeJSON then stores whole
RaceWrite(c) ==
    /\ p_pc[c] = "read"
    /\ \E r \in {addJob([store EXCEPT ![ScheduleKey] = ScheduleHeld(c)], nextId,
                          p_in[c][1], p_in[c][2], p_in[c][3], p_in[c][4])} :
          /\ store' = [store EXCEPT ![ScheduleKey] = r.store[ScheduleKey]]
          /\ nextId' = nextId + 1
          /\ nWrites' = nWrites + Len(r.writes)
          /\ resp' = [op |-> "add-job", status |-> r.status, writes |-> r.writes]
          /\ job' = r.job
          /\ p_prev' = [p_prev EXCEPT !.trace = Append(@, <<"write", c>>),
                                      !.status[c] = r.status,
                                      !.job[c] = r.job]
    /\ p_pc' = [p_pc EXCEPT ![c] = "done"]
    /\ UNCHANGED <<snapshot, tz, p_in, p_out>>

RaceNext == \E c \in Racers : RaceReject(c) \/ RaceRead(c) \/ RaceWrite(c)

SpecRace == RaceInit /\ [][RaceNext]_vars

\* The fields of jobs, rules and instances that are computed from text:
\* expected_hours (parseFloat(x) || 0) and maps_url (buildMapsURL,
\* encodeURIComponent).  Text is a sequence of characters; a JavaScript value
\* is undefined, a string or a number m * 10^-e (or NaN).
MaxText == 3

Texts(chars) == UNION { [1..n -> chars] : n \in 0..MaxText }

Undefined == [t |-> "undefined", s |-> <<>>, nan |-> FALSE, m |-> 0, e |-> 0]
Str(s) == [t |-> "string", s |-> s, nan |-> FALSE, m |-> 0, e |-> 0]
Num(m, e) == [t |-> "number", s |-> <<>>, nan |-> FALSE, m |-> m, e |-> e]
NaN == [t |-> "number", s |-> <<>>, nan |-> TRUE, m |-> 0, e |-> 0]

WhiteSpace == {" "}
Digits == {"0", "1", "2", "3", "4", "5", "6", "7", "8", "9"}
DigitValue(c) ==
    CASE c = "0" -> 0 [] c = "1" -> 1 [] c = "2" -> 2 [] c = "3" -> 3
      [] c = "4" -> 4 [] c = "5" -> 5 [] c = "6" -> 6 [] c = "7" -> 7
      [] c = "8" -> 8 [] c = "9" -> 9

\* String.prototype.trim
RECURSIVE TrimStart(_)
TrimStart(s) ==
    IF s # <<>> /\ Head(s) \in WhiteSpace THEN TrimStart(Tail(s)) ELSE s

RECURSIVE TrimEnd(_)
TrimEnd(s) ==
    IF s # <<>> /\ s[Len(s)] \in WhiteSpace
    THEN TrimEnd(SubSeq(s, 1, Len(s) - 1)) ELSE s

TrimText(s) == TrimEnd(TrimStart(s))

\* Number of digits of s from position i on
RECURSIVE DigitRun(_, _)
DigitRun(s, i) ==
    IF i <= Len(s) /\ s[i] \in Digits THEN 1 + DigitRun(s, i + 1) ELSE 0

\* The decimal number written by the n digits of s from position i on,
\* continuing the number acc
RECURSIVE ReadDigits(_, _, _, _)
ReadDigits(s, i, n, acc) ==
    IF n = 0 THEN acc
    ELSE ReadDigits(s, i + 1, n - 1, 10 * acc + DigitValue(s[i]))

\* parseFloat of a string: leading white space is skipped, then the longest
\* prefix sign digits [. digits] is read; NaN when it holds no digit
ParseDecimal(str) ==
    LET s        == TrimStart(str)
        negative == s # <<>> /\ s[1] = "-"
        i        == IF negative THEN 2 ELSE 1
        whole    == DigitRun(s, i)
        dot      == i + whole <= Len(s) /\ s[i + whole] = "."
        frac     == IF dot THEN DigitRun(s, i + whole + 1) ELSE 0
        m        == ReadDigits(s, i + whole + 1, frac, ReadDigits(s, i, whole, 0))
    IN  IF whole + frac = 0 THEN NaN
        ELSE Num(IF negative THEN 0 - m ELSE m, frac)

\* parseFloat: the argument is converted to a string and parsed; a number
\* is read back as itself, undefined as NaN
parseFloat(v) ==
    IF v.t = "number" THEN v
    ELSE IF v.t = "string" THEN ParseDecimal(v.s)
    ELSE NaN

\* ToBoolean(v) is false
Falsy(v) ==
    \/ v.t = "undefined"
    \/ v.t = "number" /\ (v.nan \/ v.m = 0)
    \/ v.t = "string" /\ v.s = <<>>

\* v || 0
OrZero(v) == IF Falsy(v) THEN Num(0, 0) ELSE v

\* encodeURIComponent: every character but letters, digits and - _ . ! ~ * ' ( )
\* is replaced by the escape of its UTF-8 byte
Escape(c) ==
    CASE c = " " -> <<"%", "2", "0">>
      [] c = "&" -> <<"%", "2", "6">>
      [] c = "%" -> <<"%", "2", "5">>
      [] c = "/" -> <<"%", "2", "F">>
      [] OTHER   -> <<c>>

RECURSIVE encodeURIComponent(_)
encodeURIComponent(str) ==
    IF str = <<>> THEN <<>>
    ELSE Escape(Head(str)) \o encodeURIComponent(Tail(str))

\* utils.js: function encodeURI(str) { return encodeURIComponent(str); }
encodeURI(str) == encodeURIComponent(str)

\* A URL written by a template literal: the fixed text and the encoded query
MapsSearch == "https://www.google.com/maps/search/?api=1&query="
Url(base, query) == [base |-> base, query |-> query]
NoUrl == Url("", <<>>)

buildMapsURL(street, houseNumber) ==
    LET address == houseNumber \o <<" ">> \o street
    IN  Url(MapsSearch, encodeURI(address))

\* The job of an add-job that takes maps_url from the request when it has one
newJob_KeepLink(address, expected_hours, n) ==
    [id             |-> Uuid(n + 1),
     street         |-> address.street,
     house_number   |-> address.house_number,
     status         |-> "pending",
     maps_url       |-> IF address.maps_url # NoUrl THEN address.maps_url
                        ELSE buildMapsURL(address.street, address.house_number),
     expected_hours |-> OrZero(parseFloat(expected_hours))]

\* const job = { ... } of add-job
newJob(address, expected_hours, n) ==
    [id             |-> Uuid(n + 1),
     street         |-> address.street,
     house_number   |-> address.house_number,
     status         |-> "pending",
     maps_url       |-> buildMapsURL(address.street, address.house_number),
     expected_hours |-> OrZero(parseFloat(expected_hours))]

\* const newRule = { ... } of add-recurring-job
newRuleOf(street, house_number, expected_hours, n) ==
    [id             |-> Uuid(n + 1),
     street         |-> TrimText(street),
     house_number   |-> TrimText(house_number),
     expected_hours |-> OrZero(parseFloat(expected_hours))]

\* The assignments of edit-recurring-job to street and expected_hours
editedRule(rule, body) ==
    [rule EXCEPT
        !.street         = IF body.street.t # "undefined"
                           THEN TrimText(body.street.s) ELSE @,
        !.expected_hours = IF body.expected_hours.t # "undefined"
                           THEN OrZero(parseFloat(body.expected_hours)) ELSE @]

\* const job = { ... } of projectRecurringJobs
newInstance(rule, dateKey) ==
    [id             |-> InstanceId(rule.id, dateKey),
     street         |-> rule.street,
     house_number   |-> rule.house_number,
     status         |-> "pending",
     maps_url       |-> Url(MapsSearch,
                            encodeURIComponent(rule.house_number \o <<" ">> \o rule.street)),
     expected_hours |-> OrZero(rule.expected_hours)]

\* Requests: one address with every expected_hours, and every address with
\* no expected_hours; each followed by one of three edits
StreetChars == {"M", "a", " ", "&", "%"}
HourChars == {"-", "3", "0", ".", "h", " "}
HourValues ==
    {Undefined, NaN, Num(0, 0), Num(2, 0), Num(0 - 3, 0), Num(15, 1)}
        \cup { Str(s) : s \in Texts(HourChars) }
HouseNumbers == {<<"4", "2">>, <<" ">>, <<>>}
SuppliedUrl == Url("https://example.org/", <<"x">>)
FieldAddresses ==
    [street : Texts(StreetChars), house_number : HouseNumbers,
     maps_url : {NoUrl, SuppliedUrl}]
FieldPatches ==
    {[street |-> Undefined, expected_hours |-> Undefined],
     [street |-> Str(<<" ", "&", "a">>), expected_hours |-> Str(<<"-", "3">>)],
     [street |-> Str(<<"a", " ", "M">>), expected_hours |-> Str(<<"h">>)]}
FieldRequests ==
    ([address : {[street |-> <<"M", "a">>, house_number |-> <<"4", "2">>,
                  maps_url |-> NoUrl]},
      expected_hours : HourValues, patch : FieldPatches])
    \cup [address : FieldAddresses, expected_hours : {Undefined},
          patch : FieldPatches]

FieldsInit ==
    /\ store = EmptyStore
    /\ nextId = 0
    /\ nWrites = 0
    /\ resp = IdleResp
    /\ snapshot = <<>>
    /\ job = NoJob
    /\ tz = "UTC"
    /\ p_in \in FieldRequests
    /\ p_out = <<>>
    /\ p_prev = <<>>
    /\ p_pc = "start"

\* validateAddress on an address whose street and house_number are strings
AddressGiven(address) == address.street # <<>> /\ address.house_number # <<>>

\* add-job or add-recurring-job answered 400: a required text is empty
FieldsReject ==
    /\ p_pc = "start"
    /\ ~AddressGiven(p_in.address)
    /\ p_pc' = "rejected"
    /\ UNCHANGED <<sysVars, tz, p_in, p_out, p_prev>>

\* add-job: the job that is pushed and written
FieldsAddJob ==
    /\ p_pc = "start"
    /\ AddressGiven(p_in.address)
    /\ p_out' = newJob(p_in.address, p_in.expected_hours, nextId)
    /\ nextId' = nextId + 1
    /\ p_pc' = "job"
    /\ UNCHANGED <<store, nWrites, resp, snapshot, job, tz, p_in, p_prev>>

\* add-recurring-job: the rule that is pushed and written
FieldsAddRule ==
    /\ p_pc = "start"
    /\ AddressGiven(p_in.address)
    /\ p_prev' = newRuleOf(p_in.address.street, p_in.address.house_number,
                         p_in.expected_hours, nextId)
    /\ nextId' = nextId + 1
    /\ p_pc' = "rule"
    /\ UNCHANGED <<store, nWrites, resp, snapshot, job, tz, p_in, p_out>>

\* edit-recurring-job on that rule
FieldsEditRule ==
    /\ p_pc = "rule"
    /\ p_prev' = editedRule(p_prev, p_in.patch)
    /\ p_pc' = "edited"
    /\ UNCHANGED <<sysVars, tz, p_in, p_out>>

\* get-schedule: the instance projected from the rule on 02-03-2026
FieldsProject ==
    /\ p_pc \in {"rule", "edited"}
    /\ p_out' = newInstance(p_prev, D1)
    /\ p_pc' = IF p_pc = "rule" THEN "instance" ELSE "edited instance"
    /\ UNCHANGED <<sysVars, tz, p_in, p_prev>>

FieldsNext ==
    FieldsReject \/ FieldsAddJob \/ FieldsAddRule \/ FieldsEditRule \/ FieldsProject

SpecFields == FieldsInit /\ [][FieldsNext]_vars

\* A cancel-recurring-instance and an edit-recurring-job in flight at once on
\* the seeded store.  Each invocation validates, awaits readJSON of the
\* rules, changes the rule in its own copy of the list and awaits writeJSON
\* of the whole list; a get-schedule follows when both have answered.
RuleRacers == {"cancel", "edit"}
RaceCancels == {Uuid(4)} \X {D1, D2, BadDate}        \* <<rule_id, date>>
RaceEdits ==                                         \* <<rule_id, body>>
    {Uuid(4), UnknownId}
        \X {[f \in {"street"} |-> "Elm Road"], [f \in {"paused"} |-> TRUE],
            [f \in {"frequency"} |-> "fortnightly"]}

RuleRaceInit ==
    /\ store = SeedStore
    /\ nextId = Cardinality(SeedIds)
    /\ nWrites = 0
    /\ resp = IdleResp
    /\ snapshot = <<>>
    /\ job = NoJob
    /\ tz = "UTC"
    /\ p_in \in [cancel : RaceCancels, edit : RaceEdits]
    /\ p_out = [c \in RuleRacers |-> <<>>]
    /\ p_prev = [trace |-> <<>>, status |-> [c \in RuleRacers |-> 0]]
    /\ p_pc = [c \in RuleRacers |-> "start"]

\* The rule list a racer works on between its read and its write: the value
\* its readJSON returned
RulesHeld_Fresh(c) == readJSON(store, RecurringKey)

RulesHeld(c) == p_out[c]

\* The handler of racer c run on the store st
RuleRaceHandler(c, st) ==
    IF c = "cancel"
    THEN cancelRecurringInstance(st, p_in.cancel[1], p_in.cancel[2])
    ELSE editRecurringJob(st, p_in.edit[1], p_in.edit[2])

\* The request fails the tests made before the read: 400, nothing is read
RuleRaceReject(c) ==
    /\ p_pc[c] = "start"
    /\ RuleRaceHandler(c, store).status = 400
    /\ p_pc' = [p_pc EXCEPT ![c] = "done"]
    /\ p_prev' = [p_prev EXCEPT !.status[c] = 400]
    /\ UNCHANGED <<sysVars, tz, p_in, p_out>>

\* await readJSON('data/recurring-jobs.json')
RuleRaceRead(c) ==
    /\ p_pc[c] = "start"
    /\ RuleRaceHandler(c, store).status # 400
    /\ p_out' = [p_out EXCEPT ![c] = readJSON(store, RecurringKey)]
    /\ p_pc' = [p_pc EXCEPT ![c] = "read"]
    /\ p_prev' = [p_prev EXCEPT !.trace = Append(@, <<"read", c>>)]
    /\ UNCHANGED <<sysVars, tz, p_in>>

\* The rest of the handler on the held list: 404 when the rule is not in
\* it, else the change and the write of the whole list
RuleRaceWrite(c) ==
    /\ p_pc[c] = "read"
    /\ \E r \in {RuleRaceHandler(c, [store EXCEPT ![RecurringKey] = RulesHeld(c)])} :
          /\ store' = IF r.writes = <<>> THEN store
                      ELSE [store EXCEPT ![RecurringKey] = r.store[RecurringKey]]
          /\ nWrites' = nWrites + Len(r.writes)
          /\ resp' = [op     |-> IF c = "cancel" THEN "cancel-recurring-instance"
                                 ELSE "edit-recurring-job",
                      status |-> r.status, writes |-> r.writes]
          /\ job' = r.job
          /\ p_prev' = [p_prev EXCEPT
                          !.trace = IF r.writes = <<>> THEN @
                                    ELSE Append(@, <<"write", c>>),
                          !.status[c] = r.status]
    /\ p_pc' = [p_pc EXCEPT ![c] = "done"]
    /\ UNCHANGED <<nextId, snapshot, tz, p_in, p_out>>

\* The get-schedule that follows, over 02-03..09-03-2026
RuleRaceShow ==
    /\ \A c \in RuleRacers : p_pc[c] = "done"
    /\ resp.op # "get-schedule"
    /\ \E r \in {getSchedule(store, [from |-> D1, to |-> D2], tz, {})} :
          /\ resp' = [op |-> "get-schedule", status |-> r.status, writes |-> r.writes]
          /\ snapshot' = r.body
    /\ job' = NoJob
    /\ UNCHANGED <<store, nextId, nWrites, tz, harnessVars>>

RuleRaceNext ==
    \/ \E c \in RuleRacers : RuleRaceReject(c) \/ RuleRaceRead(c) \/ RuleRaceWrite(c)
    \/ RuleRaceShow

SpecRuleRace == RuleRaceInit /\ [][RuleRaceNext]_vars

\* The from/to loop of get-schedule step by step: the schedule is read, the
\* cursor runs from `from` to `to` one day at a time, then the rules are
\* projected
MaxRange == 3
PadAnchors == {parseDateKey(D1) - 1, parseDateKey(D2) - 1, DateOf(2026, 2, 27)}
PadRanges ==
    { [from |-> formatDateKey(a), to |-> formatDateKey(a + n)] :
        a \in PadAnchors, n \in 0..MaxRange }
PadStores == {EmptyStore, SeedStore, [SeedStore EXCEPT ![RecurringKey] = <<>>]}

PadInit ==
    /\ store = [k \in StoreKeys |-> <<>>]
    /\ nextId = 0
    /\ nWrites = 0
    /\ resp = IdleResp
    /\ snapshot = <<>>
    /\ job = NoJob
    /\ tz \in TimeZones
    /\ p_in \in [store : PadStores, params : PadRanges]
    /\ p_out = <<>>
    /\ p_prev = 0
    /\ p_pc = "request"

\* The body of the loop for one date key
PadEntry_Overwrite(schedule, dk) == Put(schedule, dk, EmptyDay)

PadEntry(schedule, dk) ==
    IF dk \in DOMAIN schedule THEN schedule ELSE Put(schedule, dk, EmptyDay)

PadRead ==
    /\ p_pc = "request"
    /\ p_out' = readSchedule(p_in.store, {})
    /\ p_prev' = parseDateKey(p_in.params.from)
    /\ p_pc' = "loop"
    /\ UNCHANGED <<sysVars, tz, p_in>>

PadStep ==
    /\ p_pc = "loop"
    /\ p_prev <= parseDateKey(p_in.params.to)
    /\ p_out' = PadEntry(p_out, formatDateKey(p_prev))
    /\ p_prev' = p_prev + 1
    /\ UNCHANGED <<sysVars, tz, p_in, p_pc>>

PadExit ==
    /\ p_pc = "loop"
    /\ ~(p_prev <= parseDateKey(p_in.params.to))
    /\ p_pc' = "project"
    /\ UNCHANGED <<sysVars, tz, p_in, p_out, p_prev>>

PadProject ==
    /\ p_pc = "project"
    /\ p_out' = IF Len(readJSON(p_in.store, RecurringKey)) > 0
                THEN projectRecurringJobs(p_out, readJSON(p_in.store, RecurringKey),
                                          KeyList(DOMAIN p_out), tz)
                ELSE p_out
    /\ p_pc' = "done"
    /\ UNCHANGED <<sysVars, tz, p_in, p_prev>>

PadNext == PadRead \/ PadStep \/ PadExit \/ PadProject

\* The handler runs its statements one after the other: a loop step that can
\* be taken is taken
SpecPad == PadInit /\ [][PadNext]_vars /\ WF_vars(PadRead \/ PadStep \/ PadExit)

PNext == PProject \/ PProjectAgain

SpecProject == PInit /\ [][PNext]_vars

-----------------------------------------------------------------------------
(* Properties of the projection (checked under SpecProject) *)

\* The addresses of slot (d, t), empty when the date or the team is absent
AddressesOf(schedule, d, t) ==
    IF d \in DOMAIN schedule /\ t \in DOMAIN schedule[d]
    THEN schedule[d][t].addresses ELSE <<>>

\* Number of projected instances of rule rid in slot (d, t)
CountInstances(schedule, rid, d, t) ==
    LET a == AddressesOf(schedule, d, t)
    IN  Cardinality({k \in 1..Len(a) :
                       a[k].id = InstanceId(rid, d) /\ a[k].recurring_id = rid})

\* Number of jobs of slot (d, t) that carry recurring_id rid
CountRecurring(schedule, rid, d, t) ==
    LET a == AddressesOf(schedule, d, t)
    IN  Cardinality({k \in 1..Len(a) : a[k].recurring_id = rid})

\* The recurrence predicate of the claim, on calendar day numbers
Due(rule, d) ==
    LET s == parseDateKey(rule.start_date)
        c == parseDateKey(d)
    IN  /\ c >= s
        /\ getDay(c) = getDay(s)
        /\ (c - s) % (IF rule.frequency = "weekly" THEN 7 ELSE 14) = 0

\* Dates on which the schedule holds a projected instance of rule rid
InstanceDates(schedule, rid) ==
    {d \in DOMAIN schedule :
        \E t \in Teams : CountInstances(schedule, rid, d, t) > 0}

WeeklyScenario ==
    /\ p_in.rules = <<Rule(1, "Team_A", D1, "weekly", <<>>, FALSE)>>
    /\ p_in.keys = <<D1, D2, D3>>

FortnightlyScenario ==
    /\ p_in.rules = <<Rule(1, "Team_A", D1, "fortnightly", <<>>, FALSE)>>
    /\ p_in.keys = <<D1, D2, D4, D5>>

\* C1: one projection adds exactly one virtual job for rule r to slot (d, t)
\* when d is requested, t is r's team, r is not paused, d is on or after
\* r.start_date on the same weekday a multiple of 7 (weekly) or 14
\* (fortnightly) days later, d is not excepted and the slot held no job with
\* recurring_id r.id; otherwise it adds none.  The weekly rule from Monday
\* 02-03-2026 over 02-03, 09-03, 10-03 lands on 02-03 and 09-03 only; the
\* fortnightly rule lands on S, S+14, S+28 and not on S+7.
C1_ProjectionIff ==
    p_pc = "once" =>
        /\ \A i \in 1..Len(p_in.rules) : \A d \in PDates : \A t \in Teams :
              LET r == p_in.rules[i]
              IN  CountInstances(p_out, r.id, d, t)
                    - CountInstances(p_prev, r.id, d, t)
                  = IF /\ Includes(p_in.keys, d)
                       /\ t = r.team_id
                       /\ ~r.paused
                       /\ Due(r, d)
                       /\ ~Includes(r.exceptions, d)
                       /\ CountRecurring(p_prev, r.id, d, t) = 0
                    THEN 1 ELSE 0
        /\ WeeklyScenario => InstanceDates(p_out, Uuid(1)) = {D1, D2}
        /\ FortnightlyScenario => InstanceDates(p_out, Uuid(1)) = {D1, D4, D5}

C1_Witness ==
    /\ p_pc = "once"
    /\ FortnightlyScenario
    /\ CountInstances(p_out, Uuid(1), D5, "Team_A") = 1
    /\ CountInstances(p_out, Uuid(1), D2, "Team_A") = 0

\* C2: projecting the output again with the same rules and keys changes
\* nothing, and after one or two projections (also of a key list that names a
\* date twice) no slot holds two jobs with the same recurring_id.
C2_Idempotent ==
    /\ p_pc = "twice" => p_out = p_prev
    /\ p_pc \in {"once", "twice"} =>
          \A i \in 1..Len(p_in.rules) : \A d \in PDates : \A t \in Teams :
              CountRecurring(p_out, p_in.rules[i].id, d, t) <= 1

C2_Witness ==
    /\ p_pc = "twice"
    /\ p_in.keys = <<D1, D1>>
    /\ CountInstances(p_out, Uuid(1), D1, "Team_A") = 1

\* seq1 is an initial segment of seq2
IsPrefix(seq1, seq2) ==
    /\ Len(seq1) <= Len(seq2)
    /\ \A k \in 1..Len(seq1) : seq2[k] = seq1[k]

\* C7: a projection keeps every slot it was given: the jobs that were there
\* are still there, unchanged and first in the same order, assigned_workers is
\* unchanged, and whatever follows them (or fills a slot that was created) is
\* a virtual job of that date.
C7_NonDestructive ==
    p_pc \in {"once", "twice"} =>
        /\ \A d \in DOMAIN p_prev : \A t \in DOMAIN p_prev[d] :
              /\ d \in DOMAIN p_out
              /\ t \in DOMAIN p_out[d]
              /\ p_out[d][t].assigned_workers = p_prev[d][t].assigned_workers
              /\ IsPrefix(p_prev[d][t].addresses, p_out[d][t].addresses)
        /\ \A d \in DOMAIN p_out : \A t \in DOMAIN p_out[d] :
              LET before == AddressesOf(p_prev, d, t)
                  after  == p_out[d][t].addresses
              IN  /\ \A k \in (Len(before) + 1)..Len(after) :
                        /\ after[k].is_recurring
                        /\ after[k].id.suffix = d
                  /\ (d \notin DOMAIN p_prev \/ t \notin DOMAIN p_prev[d])
                        => p_out[d][t].assigned_workers = <<>>

C7_Witness ==
    /\ p_pc = "once"
    /\ Len(p_prev[D4]["Team_B"].addresses) = 2
    /\ Len(p_out[D4]["Team_B"].addresses) = 3
    /\ p_out[D4]["Team_B"].assigned_workers = <<"Chloe">>

-----------------------------------------------------------------------------
(* Properties of the system (checked under Spec) *)

\* A response of get-schedule is in hand
Returned == resp.op = "get-schedule"

\* Number of jobs on date d, in either team, that carry recurring_id rid
CountOnDate(schedule, rid, d) ==
    CountRecurring(schedule, rid, d, "Team_A")
        + CountRecurring(schedule, rid, d, "Team_B")

\* The rule with this id in a rule list (the list holds it)
RuleOf(recurringJobs, rid) == recurringJobs[FindIndex(recurringJobs, rid)]

\* The slots <<date, team>> in which the schedule holds a projected instance
\* of rule rid
InstanceSlots(schedule, rid) ==
    {dt \in (DOMAIN schedule) \X Teams :
        CountInstances(schedule, rid, dt[1], dt[2]) > 0}

ExceptionRemovesOne(before, after, rid, d) ==
    \A e \in DOMAIN before \cup DOMAIN after : \A t \in Teams :
        AddressesOf(after, e, t) =
            SelectSeq(AddressesOf(before, e, t),
                      LAMBDA a : ~(e = d /\ a.id = InstanceId(rid, d)))

\* C4: once cancel-recurring-instance(r, d) has succeeded, no snapshot holds
\* a projected instance of r on d (the date stays in r.exceptions for as long
\* as r exists); and the step itself removes that instance only: every other
\* occurrence of r and every occurrence of every other rule is as before.
C4_ExceptionSuppresses ==
    /\ [](Returned =>
            \A i \in 1..Len(store[RecurringKey]) :
                LET r == store[RecurringKey][i]
                IN  \A k \in 1..Len(r.exceptions) : \A t \in Teams :
                        CountInstances(snapshot, r.id, r.exceptions[k], t) = 0)
    /\ [][\A rid \in ReqRuleIds, d \in ReqDates :
            (/\ resp'.op = "cancel-recurring-instance"
             /\ resp'.status = 200
             /\ CancelRecurringInstance(rid, d)) =>
                /\ Includes(RuleOf(store'[RecurringKey], rid).exceptions, d)
                /\ \A params \in ReqParams :
                      \A before \in {ScheduleBody(store, params, tz)} :
                      \A after \in {ScheduleBody(store', params, tz)} :
                          ExceptionRemovesOne(before, after, rid, d)
         ]_vars
    /\ [][\A i \in 1..Len(store[RecurringKey]) :
            LET r == store[RecurringKey][i]
            IN  (/\ resp'.writes = <<RecurringKey>>
                 /\ r.id \in RuleIdsOf(store'[RecurringKey])) =>
                  \A k \in 1..Len(r.exceptions) :
                      Includes(RuleOf(store'[RecurringKey], r.id).exceptions,
                               r.exceptions[k])
         ]_vars

\* A snapshot taken after rule 4's occurrence of 09-03-2026 was cancelled:
\* that date shows no instance of the rule, 02-03-2026 still does.
C4_Witness ==
    /\ Returned
    /\ Len(store[RecurringKey]) = 1
    /\ store[RecurringKey][1].id = Uuid(4)
    /\ store[RecurringKey][1].exceptions = <<D2>>
    /\ ~store[RecurringKey][1].paused
    /\ CountInstances(snapshot, Uuid(4), D2, "Team_A") = 0
    /\ CountInstances(snapshot, Uuid(4), D1, "Team_A") = 1

\* The projected jobs of rule rid that slot (d, t) lists, in order
ProjectedOf(schedule, rid, d, t) ==
    SelectSeq(AddressesOf(schedule, d, t),
              LAMBDA a : a.is_recurring /\ a.recurring_id = rid)

\* Two schedules list the same projected jobs for every rule but rid
SameForOthers(before, after, rids, rid) ==
    \A o \in rids \ {rid} :
        \A d \in DOMAIN before \cup DOMAIN after : \A t \in Teams :
            ProjectedOf(after, o, d, t) = ProjectedOf(before, o, d, t)

\* The store after edit-recurring-job(rid, {paused: b})
SetPaused(st, rid, b) ==
    editRecurringJob(st, rid, [f \in {"paused"} |-> b]).store

\* The store after cancel-recurring-instance(rid, d) for each d of the list
RECURSIVE CancelAll(_, _, _)
CancelAll(st, rid, dates) ==
    IF dates = <<>> THEN st
    ELSE CancelAll(cancelRecurringInstance(st, rid, Head(dates)).store,
                   rid, Tail(dates))

\* The occurrences cancelled while a rule is paused
MeanwhileDates == {<<>>, <<D1>>, <<D2>>, <<D2, D1>>}

\* C5: while rule r is paused no snapshot holds a projected instance of r,
\* and the edit that pauses or unpauses r leaves the instances of every
\* other rule as they were; pausing r, cancelling some occurrences of r and
\* unpausing r gives the instances r had before the pause less the cancelled
\* ones, with the other rules' instances the same at every stage.
C5_PauseSuppresses ==
    /\ [](Returned =>
            \A i \in 1..Len(store[RecurringKey]) :
                LET r == store[RecurringKey][i]
                IN  r.paused =>
                      \A d \in DOMAIN snapshot : \A t \in Teams :
                          ProjectedOf(snapshot, r.id, d, t) = <<>>)
    /\ [][\A rid \in ReqRuleIds, b \in BOOLEAN :
            (/\ resp'.op = "edit-recurring-job"
             /\ resp'.status = 200
             /\ EditRecurringJob(rid, [f \in {"paused"} |-> b])) =>
                \A params \in ReqParams :
                    \A before \in {ScheduleBody(store, params, tz)} :
                    \A after \in {ScheduleBody(store', params, tz)} :
                        /\ SameForOthers(before, after,
                                         RuleIdsOf(store[RecurringKey]), rid)
                        /\ b => \A d \in DOMAIN after : \A t \in Teams :
                                    ProjectedOf(after, rid, d, t) = <<>>
         ]_vars
    /\ [](\A rid \in RuleIdsOf(store[RecurringKey]) :
            (Returned /\ ~RuleOf(store[RecurringKey], rid).paused) =>
              \A dates \in MeanwhileDates : \A params \in ReqParams :
                \A st1 \in {SetPaused(store, rid, TRUE)} :
                \A st2 \in {CancelAll(st1, rid, dates)} :
                \A st3 \in {SetPaused(st2, rid, FALSE)} :
                \A b0 \in {ScheduleBody(store, params, tz)} :
                \A b1 \in {ScheduleBody(st1, params, tz)} :
                \A b2 \in {ScheduleBody(st2, params, tz)} :
                \A b3 \in {ScheduleBody(st3, params, tz)} :
                \A ids \in {RuleIdsOf(store[RecurringKey])} :
                    /\ \A d \in DOMAIN b0 \cup DOMAIN b3 : \A t \in Teams :
                          ProjectedOf(b3, rid, d, t) =
                              IF Includes(dates, d) THEN <<>>
                              ELSE ProjectedOf(b0, rid, d, t)
                    /\ \A d \in DOMAIN b1 \cup DOMAIN b2 : \A t \in Teams :
                          /\ ProjectedOf(b1, rid, d, t) = <<>>
                          /\ ProjectedOf(b2, rid, d, t) = <<>>
                    /\ SameForOthers(b0, b1, ids, rid)
                    /\ SameForOthers(b0, b2, ids, rid)
                    /\ SameForOthers(b0, b3, ids, rid))

\* A snapshot taken while rule 4, due on 09-03-2026 and not excepted, is
\* paused: the date shows no instance of it.
C5_Witness ==
    /\ Returned
    /\ Len(store[RecurringKey]) >= 1
    /\ store[RecurringKey][1].id = Uuid(4)
    /\ store[RecurringKey][1].paused
    /\ store[RecurringKey][1].exceptions = <<>>
    /\ Due(store[RecurringKey][1], D2)
    /\ D2 \in DOMAIN snapshot
    /\ ProjectedOf(snapshot, Uuid(4), D2, store[RecurringKey][1].team_id) = <<>>

\* C6: get-schedule writes nothing: its step leaves the stored schedule,
\* recurring-jobs and clients values as they were, whatever the range and the
\* rules, so no projected instance, padded date or default window is stored.
C6_ReadOnly ==
    [][resp'.op = "get-schedule" =>
          /\ store' = store
          /\ resp'.writes = <<>>
          /\ nWrites' = nWrites
      ]_vars

\* A snapshot that holds a projected instance and a padded date while the
\* store holds neither, and one of the default window over an empty store.
C6_Witness ==
    /\ Returned
    /\ store = SeedStore
    /\ CountInstances(snapshot, Uuid(4), D2, "Team_A") = 1
    /\ D2 \in DOMAIN store[ScheduleKey]
    /\ CountInstances(store[ScheduleKey], Uuid(4), D2, "Team_A") = 0
    /\ <<3, 3, 2026>> \in DOMAIN snapshot
    /\ <<3, 3, 2026>> \notin DOMAIN store[ScheduleKey]

\* The position of job job_id in slot (date, team_id) of the stored
\* schedule, 0 when the date, the slot or the job is absent
StoredAt(st, date, team_id, job_id) ==
    FindIndex(AddressesOf(st[ScheduleKey], date, team_id), job_id)

\* C8: cancel-job on a job the slot holds succeeds, and so does the same
\* call on the store it leaves, which writes nothing and leaves that store as
\* it is; the first call writes the schedule once, unless the job was
\* cancelled already.  A cancel-job step that succeeds leaves its job
\* cancelled, and one that finds it cancelled leaves the store untouched.
C8_CancelIdempotent ==
    /\ [](\A rq \in ReqJobs :
            LET idx == StoredAt(store, rq[1], rq[2], rq[3])
            IN  (isValidDate(rq[1]) /\ idx > 0) =>
                  LET was   == store[ScheduleKey][rq[1]][rq[2]].addresses[idx]
                      once  == cancelJob(store, rq[1], rq[2], rq[3])
                      twice == cancelJob(once.store, rq[1], rq[2], rq[3])
                      more  == cancelJob(twice.store, rq[1], rq[2], rq[3])
                  IN  /\ once.status = 200 /\ twice.status = 200
                      /\ once.writes = IF was.status = "cancelled" THEN <<>>
                                       ELSE <<ScheduleKey>>
                      /\ twice.writes = <<>>
                      /\ twice.store = once.store
                      /\ more = twice)
    /\ [][(resp'.op = "cancel-job" /\ resp'.status = 200) =>
            \A rq \in ReqJobs :
              CancelJob(rq[1], rq[2], rq[3]) =>
                LET idx == StoredAt(store, rq[1], rq[2], rq[3])
                IN  /\ idx > 0
                    /\ store'[ScheduleKey][rq[1]][rq[2]].addresses[idx].status
                          = "cancelled"
                    /\ job'.status = "cancelled"
                    /\ IF store[ScheduleKey][rq[1]][rq[2]].addresses[idx].status
                            = "cancelled"
                       THEN store' = store /\ resp'.writes = <<>>
                       ELSE resp'.writes = <<ScheduleKey>> /\ nWrites' = nWrites + 1
         ]_vars

\* The second cancel-job on job 1, which the stored schedule held as pending:
\* success, nothing written, one write so far.
C8_Witness ==
    /\ resp = [op |-> "cancel-job", status |-> 200, writes |-> <<>>]
    /\ job.id = Uuid(1)
    /\ job.status = "cancelled"
    /\ nWrites = 1

\* C9: a cancel-job that succeeds changes the status field of its job and
\* nothing else: the same dates and slots, the same assigned_workers, the same
\* number of jobs in the same order, every other job and every other field
\* of the job as before; recurring-jobs and clients untouched.
C9_SoftDelete ==
    [][\A rq \in ReqJobs :
         (/\ resp'.op = "cancel-job"
          /\ resp'.status = 200
          /\ CancelJob(rq[1], rq[2], rq[3])) =>
            LET before == store[ScheduleKey]
                after  == store'[ScheduleKey]
            IN  /\ store'[RecurringKey] = store[RecurringKey]
                /\ store'[ClientsKey] = store[ClientsKey]
                /\ DOMAIN after = DOMAIN before
                /\ \A d \in DOMAIN before :
                      /\ DOMAIN after[d] = DOMAIN before[d]
                      /\ \A t \in DOMAIN before[d] :
                            /\ after[d][t].assigned_workers
                                  = before[d][t].assigned_workers
                            /\ Len(after[d][t].addresses)
                                  = Len(before[d][t].addresses)
                            /\ \A k \in 1..Len(before[d][t].addresses) :
                                  LET a == before[d][t].addresses[k]
                                      b == after[d][t].addresses[k]
                                  IN  IF <<d, t, a.id>> = rq
                                      THEN /\ b = [a EXCEPT !.status = "cancelled"]
                                           /\ b.status = "cancelled"
                                      ELSE b = a
      ]_vars

\* Job 1 cancelled in place: still first of the two jobs of its slot, the
\* slot's workers as they were.
C9_Witness ==
    /\ resp = [op |-> "cancel-job", status |-> 200, writes |-> <<ScheduleKey>>]
    /\ job.id = Uuid(1)
    /\ Len(store[ScheduleKey][D1]["Team_A"].addresses) = 2
    /\ store[ScheduleKey][D1]["Team_A"].addresses[1].id = Uuid(1)
    /\ store[ScheduleKey][D1]["Team_A"].addresses[1].status = "cancelled"
    /\ store[ScheduleKey][D1]["Team_A"].addresses[1].street = "Main Street"
    /\ store[ScheduleKey][D1]["Team_A"].assigned_workers = <<"Amylea", "Angelo">>

\* C10: cancel-job and delete-job with a valid date, team and job id answer
\* 404 when the schedule has no entry for the date, the date has no slot for
\* the team, or the slot holds no job with that id; the handler then writes
\* nothing, and the step that answers 404 leaves the store unchanged.
C10_NotFound ==
    /\ [](\A rq \in ReqJobs :
            (isValidDate(rq[1]) /\ StoredAt(store, rq[1], rq[2], rq[3]) = 0) =>
                LET c == cancelJob(store, rq[1], rq[2], rq[3])
                    d == deleteJob(store, rq[1], rq[2], rq[3])
                IN  /\ c.status = 404 /\ c.writes = <<>> /\ c.store = store
                    /\ d.status = 404 /\ d.writes = <<>> /\ d.store = store)
    /\ [][(resp'.op \in {"cancel-job", "delete-job"} /\ resp'.status = 404) =>
            /\ resp'.writes = <<>>
            /\ store' = store
            /\ nWrites' = nWrites
         ]_vars

\* A 404 of cancel-job or delete-job while the store is the seeded one, where
\* 09-03-2026 has no Team_B slot and no slot holds the instance id.
C10_Witness ==
    /\ resp.op \in {"cancel-job", "delete-job"}
    /\ resp.status = 404
    /\ resp.writes = <<>>
    /\ store = SeedStore
    /\ "Team_B" \notin DOMAIN store[ScheduleKey][D2]

\* The ids of all jobs a snapshot or stored schedule lists
ShownIds(schedule) ==
    UNION { { AddressesOf(schedule, d, t)[k].id :
                k \in 1..Len(AddressesOf(schedule, d, t)) } :
            d \in DOMAIN schedule, t \in Teams }

\* C11: a delete-job that succeeds removes the job with the given id from its
\* slot and returns it; the other jobs of the slot keep their order, every
\* other slot and every assigned_workers list are as before, recurring-jobs
\* and clients untouched; the job is in no slot of the store it leaves, a
\* snapshot of get-schedule shows no stored-style job that the store does not
\* hold, and no later step brings back an id that was generated and is no
\* longer stored.
C11_DeleteExact ==
    /\ [][(resp'.op = "delete-job" /\ resp'.status = 200) =>
            \A rq \in ReqJobs :
              (rq[3] = job'.id /\ DeleteJob(rq[1], rq[2], rq[3])) =>
                \A before \in {store[ScheduleKey]} :
                \A after \in {store'[ScheduleKey]} :
                \A idx \in {StoredAt(store, rq[1], rq[2], rq[3])} :
                    /\ idx > 0
                    /\ job' = before[rq[1]][rq[2]].addresses[idx]
                    /\ job'.id = rq[3]
                    /\ store'[RecurringKey] = store[RecurringKey]
                    /\ store'[ClientsKey] = store[ClientsKey]
                    /\ DOMAIN after = DOMAIN before
                    /\ \A d \in DOMAIN before :
                          /\ DOMAIN after[d] = DOMAIN before[d]
                          /\ \A t \in DOMAIN before[d] :
                                /\ after[d][t].assigned_workers
                                      = before[d][t].assigned_workers
                                /\ after[d][t].addresses =
                                      IF <<d, t>> = <<rq[1], rq[2]>>
                                      THEN SelectSeq(before[d][t].addresses,
                                                     LAMBDA a : a.id # rq[3])
                                      ELSE before[d][t].addresses
                    /\ Len(after[rq[1]][rq[2]].addresses)
                          = Len(before[rq[1]][rq[2]].addresses) - 1
                    /\ rq[3] \notin ShownIds(after)
         ]_vars
    /\ [](Returned =>
            \A id \in ShownIds(snapshot) :
                id.suffix = <<>> => id \in ShownIds(store[ScheduleKey]))
    /\ [][store'[ScheduleKey] # store[ScheduleKey] =>
            \A was \in {ShownIds(store[ScheduleKey])} :
            \A now \in {ShownIds(store'[ScheduleKey])} :
                \A n \in 1..nextId : Uuid(n) \notin was => Uuid(n) \notin now
         ]_vars

\* Job 1 deleted from the slot it shared with job 2, which is now first; the
\* slot's workers are as they were.
C11_Witness ==
    /\ resp = [op |-> "delete-job", status |-> 200, writes |-> <<ScheduleKey>>]
    /\ job.id = Uuid(1)
    /\ Len(store[ScheduleKey][D1]["Team_A"].addresses) = 1
    /\ store[ScheduleKey][D1]["Team_A"].addresses[1].id = Uuid(2)
    /\ store[ScheduleKey][D1]["Team_A"].assigned_workers = <<"Amylea", "Angelo">>
    /\ Len(store[ScheduleKey][D1]["Team_B"].addresses) = 1

\* The Gregorian calendar, stated without Date
IsLeapYear(y) == (y % 4 = 0 /\ y % 100 # 0) \/ y % 400 = 0

DaysInMonth(m, y) ==
    IF m = 2 THEN (IF IsLeapYear(y) THEN 29 ELSE 28)
    ELSE IF m \in {4, 6, 9, 11} THEN 30 ELSE 31

\* <<day, month, year>> is a day of the Gregorian calendar
IsCalendarDate(k) ==
    /\ Len(k) = 3
    /\ k[3] \in 0..9999
    /\ k[2] \in 1..12
    /\ k[1] \in 1..DaysInMonth(k[2], k[3])

\* ---------------------------------------------------------------------
\* C12: an add-job request that fails validation (a date that is malformed
\* or not a calendar date, a team other than Team_A and Team_B, an address
\* without street or house_number, a selected worker outside the roster
\* such as "Zed") is answered 400 with an error that identifies the input
\* at fault, the worker by name, and nothing is written.
Range(seq) == { seq[i] : i \in 1..Len(seq) }

AtFault(e, date, team_id, address, selected_workers) ==
    \/ e.field = "date" /\ ~IsCalendarDate(date)
    \/ e.field = "team_id" /\ team_id \notin Teams
    \/ e.field = "street" /\ address.street = ""
    \/ e.field = "house_number" /\ address.house_number = ""
    \/ e.field = "status" /\ e.value = address.status
                          /\ address.status \notin VALID_STATUSES
    \/ e.field = "worker name" /\ e.value \in Range(selected_workers)
                               /\ e.value \notin WORKER_ROSTER

FailsValidation(date, team_id, address, selected_workers) ==
    \/ ~IsCalendarDate(date)
    \/ team_id \notin Teams
    \/ address.street = ""
    \/ address.house_number = ""
    \/ \E w \in Range(selected_workers) : w \notin WORKER_ROSTER

SlotAt(schedule, d, t) ==
    IF d \in DOMAIN schedule /\ t \in DOMAIN schedule[d]
    THEN schedule[d][t] ELSE EmptySlot

C13_AddJobAppends ==
    [][(resp'.op = "add-job" /\ resp'.status = 201) =>
        \A rq \in ReqAddJobs :
          (rq[3].street = job'.street /\ AddJob(rq[1], rq[2], rq[3], rq[4])) =>
            \A before \in {store[ScheduleKey]} :
            \A after \in {store'[ScheduleKey]} :
            \A old \in {SlotAt(store[ScheduleKey], rq[1], rq[2])} :
                /\ resp'.writes = <<ScheduleKey>>
                /\ store'[RecurringKey] = store[RecurringKey]
                /\ store'[ClientsKey] = store[ClientsKey]
                /\ job'.id \notin ShownIds(before)
                /\ job'.street = rq[3].street
                /\ job'.house_number = rq[3].house_number
                /\ job'.status = "pending"
                /\ DOMAIN after = DOMAIN before \cup {rq[1]}
                /\ rq[1] \notin DOMAIN before => DOMAIN after[rq[1]] = Teams
                /\ rq[1] \in DOMAIN before =>
                      DOMAIN after[rq[1]] = DOMAIN before[rq[1]] \cup {rq[2]}
                /\ after[rq[1]][rq[2]].addresses = Append(old.addresses, job')
                /\ after[rq[1]][rq[2]].assigned_workers =
                      IF rq[4] # <<>> THEN rq[4] ELSE old.assigned_workers
                /\ \A d \in DOMAIN after : \A t \in DOMAIN after[d] :
                      <<d, t>> # <<rq[1], rq[2]>> =>
                          after[d][t] = SlotAt(before, d, t)
                /\ \A d \in DOMAIN before : d # rq[1] =>
                      DOMAIN after[d] = DOMAIN before[d]
    ]_vars

C13_Witness ==
    /\ resp = [op |-> "add-job", status |-> 201, writes |-> <<ScheduleKey>>]
    /\ nWrites = 2
    /\ Len(SlotAt(store[ScheduleKey], D1, "Team_A").addresses) = 3
    /\ SlotAt(store[ScheduleKey], D1, "Team_A").addresses[3].id = Uuid(nextId - 1)
    /\ SlotAt(store[ScheduleKey], D1, "Team_A").assigned_workers = <<"Amylea", "Angelo">>
    /\ SlotAt(store[ScheduleKey], D2, "Team_B").assigned_workers = <<"Chloe">>
    /\ SlotAt(store[ScheduleKey], D2, "Team_B").addresses = <<job>>

\* ---------------------------------------------------------------------
\* C14: update-workers with valid inputs sets the slot's assigned_workers
\* to exactly the given list, creating the date entry and the slot when
\* absent, and leaves the slot's addresses and every other slot unchanged;
\* with an invalid date, an invalid team, a worker list that is not an
\* array or a worker outside the roster it answers 400 and writes nothing.
InvalidWorkersRequest(date, team_id, assigned_workers) ==
    \/ ~IsCalendarDate(date)
    \/ team_id \notin Teams
    \/ ~assigned_workers.array
    \/ \E w \in Range(assigned_workers.items) : w \notin WORKER_ROSTER

C14_UpdateWorkers ==
    /\ [](\A rq \in ReqWorkers :
            \A r \in {updateWorkers(store, rq[1], rq[2], rq[3])} :
                IF InvalidWorkersRequest(rq[1], rq[2], rq[3])
                THEN r.status = 400 /\ r.store = store /\ r.writes = <<>>
                ELSE r.status = 200 /\ r.writes = <<ScheduleKey>>)
    /\ [][(resp'.op = "update-workers" /\ resp'.status = 400) =>
            store' = store /\ resp'.writes = <<>> /\ nWrites' = nWrites
         ]_vars
    /\ [][(resp'.op = "update-workers" /\ resp'.status = 200) =>
            \A rq \in ReqWorkers :
              UpdateWorkers(rq[1], rq[2], rq[3]) =>
                \A before \in {store[ScheduleKey]} :
                \A after \in {store'[ScheduleKey]} :
                    /\ ~InvalidWorkersRequest(rq[1], rq[2], rq[3])
                    /\ store'[RecurringKey] = store[RecurringKey]
                    /\ store'[ClientsKey] = store[ClientsKey]
                    /\ DOMAIN after = DOMAIN before \cup {rq[1]}
                    /\ rq[1] \notin DOMAIN before => DOMAIN after[rq[1]] = Teams
                    /\ rq[1] \in DOMAIN before =>
                          DOMAIN after[rq[1]] = DOMAIN before[rq[1]] \cup {rq[2]}
                    /\ after[rq[1]][rq[2]].assigned_workers = rq[3].items
                    /\ after[rq[1]][rq[2]].addresses =
                          SlotAt(before, rq[1], rq[2]).addresses
                    /\ \A d \in DOMAIN after : \A t \in DOMAIN after[d] :
                          <<d, t>> # <<rq[1], rq[2]>> =>
                              after[d][t] = SlotAt(before, d, t)
                    /\ \A d \in DOMAIN before : d # rq[1] =>
                          DOMAIN after[d] = DOMAIN before[d]
         ]_vars

C14_Witness ==
    /\ resp = [op |-> "update-workers", status |-> 200, writes |-> <<ScheduleKey>>]
    /\ nWrites = 2
    /\ SlotAt(store[ScheduleKey], D1, "Team_A").assigned_workers = <<>>
    /\ Len(SlotAt(store[ScheduleKey], D1, "Team_A").addresses) = 2
    /\ SlotAt(store[ScheduleKey], D2, "Team_B") = Slot(<<"George", "Leeroy">>, <<>>)
    /\ SlotAt(store[ScheduleKey], D2, "Team_A") = Slot(<<"Chloe">>, <<>>)
    /\ updateWorkers(store, D1, "Team_A", JsArray(<<"Chloe", "Zed">>)).status = 400

\* ---------------------------------------------------------------------
\* C15: clear-schedule-assignments empties the assigned_workers of both
\* teams of every listed date that the schedule holds, creates no entry and
\* raises no error for a listed date that it does not hold, leaves every
\* addresses list and every unlisted date unchanged, and does one read and
\* at most one write: no write when none of the listed dates exists.
C15_ClearAssignments ==
    /\ [](\A dates \in ReqClears :
            (dates.array /\ dates.items # <<>>) =>
                \A r \in {clearAssignments(store, dates)} :
                \A before \in {store[ScheduleKey]} :
                \A after \in {r.store[ScheduleKey]} :
                \A listed \in {Range(dates.items)} :
                    /\ r.status = 200
                    /\ r.reads = <<ScheduleKey>>
                    /\ r.writes = IF listed \cap DOMAIN before = {} THEN <<>>
                                  ELSE <<ScheduleKey>>
                    /\ r.writes = <<>> => r.store = store
                    /\ r.store[RecurringKey] = store[RecurringKey]
                    /\ r.store[ClientsKey] = store[ClientsKey]
                    /\ DOMAIN after = DOMAIN before
                    /\ \A d \in DOMAIN before :
                          /\ DOMAIN after[d] = DOMAIN before[d]
                          /\ d \notin listed => after[d] = before[d]
                          /\ \A t \in DOMAIN before[d] :
                                /\ after[d][t].addresses = before[d][t].addresses
                                /\ d \in listed => after[d][t].assigned_workers = <<>>)
    /\ [][resp'.op = "clear-schedule-assignments" =>
            \E dates \in ReqClears :
                \A r \in {clearAssignments(store, dates)} :
                    /\ store' = r.store
                    /\ resp'.writes = r.writes
                    /\ resp'.status = r.status
                    /\ Len(resp'.writes) <= 1
         ]_vars

C15_Witness ==
    /\ resp = [op |-> "clear-schedule-assignments", status |-> 200,
               writes |-> <<ScheduleKey>>]
    /\ nWrites = 1
    /\ D3 \notin DOMAIN store[ScheduleKey]
    /\ SlotAt(store[ScheduleKey], D1, "Team_A").assigned_workers = <<>>
    /\ Len(SlotAt(store[ScheduleKey], D1, "Team_A").addresses) = 2
    /\ SlotAt(store[ScheduleKey], D2, "Team_A").assigned_workers = <<>>
    /\ D2 \in DOMAIN store[ScheduleKey]
    /\ DOMAIN store[ScheduleKey][D2] = {"Team_A"}
    /\ clearAssignments(store, JsArray(<<D3>>)).writes = <<>>
    /\ clearAssignments(store, JsArray(<<D3>>)).status = 200

\* ---------------------------------------------------------------------
\* C16: after any sequence of add-job, update-workers, cancel-job,
\* delete-job and clear-schedule-assignments requests, every name in every
\* assigned_workers list of the persisted schedule is in WORKER_ROSTER.
C16_WorkersInRoster ==
    \A d \in DOMAIN store[ScheduleKey] :
        \A t \in DOMAIN store[ScheduleKey][d] :
            Range(store[ScheduleKey][d][t].assigned_workers) \subseteq WORKER_ROSTER

C16_Witness ==
    /\ resp = [op |-> "add-job", status |-> 201, writes |-> <<ScheduleKey>>]
    /\ nWrites = 2
    /\ SlotAt(store[ScheduleKey], D2, "Team_B").assigned_workers = <<"Chloe">>
    /\ SlotAt(store[ScheduleKey], D1, "Team_A").assigned_workers = <<>>
    /\ Len(SlotAt(store[ScheduleKey], D1, "Team_A").addresses) = 2
    /\ addJob(store, nextId, D1, "Team_A", GoodAddress, <<"Zed">>).store = store

\* ---------------------------------------------------------------------
\* C18: every date key of the persisted schedule, every start_date of a
\* stored recurring rule and every entry of a rule's exceptions is a valid
\* DD-MM-YYYY date key.
C18_DateKeysValid ==
    /\ \A d \in DOMAIN store[ScheduleKey] : IsCalendarDate(d)
    /\ \A i \in 1..Len(store[RecurringKey]) :
          /\ IsCalendarDate(store[RecurringKey][i].start_date)
          /\ \A k \in 1..Len(store[RecurringKey][i].exceptions) :
                IsCalendarDate(store[RecurringKey][i].exceptions[k])

C18_Witness ==
    /\ resp = [op |-> "cancel-recurring-instance", status |-> 200,
               writes |-> <<RecurringKey>>]
    /\ nWrites = 2
    /\ Len(store[RecurringKey]) = 1
    /\ store[RecurringKey][1].id = Uuid(nextId)
    /\ store[RecurringKey][1].exceptions # <<>>
    /\ store[ScheduleKey] = <<>>
    /\ cancelRecurringInstance(store, Uuid(nextId), BadDate).status = 400

\* ---------------------------------------------------------------------
\* C17: the date-key codec round-trips and validates strictly: parsing the
\* key that formatDateKey produces for a calendar date d gives back d, and
\* isValidDate accepts a string exactly when it has the 2-2-4 digit
\* pattern and names a day of the calendar.
HasPattern(text) ==
    /\ Len(text) = 3
    /\ <<Len(text[1]), Len(text[2]), Len(text[3])>> = <<2, 2, 4>>
    /\ \A i \in 1..3 : Range(text[i]) \subseteq 0..9

NamesCalendarDate(text) == HasPattern(text) /\ IsCalendarDate(Fields(text))

C17_CodecStrict ==
    /\ p_pc = "parsed" => p_out.date = p_in.date
    /\ p_pc = "validated" => (p_out.valid <=> NamesCalendarDate(p_in.text))

\* The same two statements for years that are not 0..99
C17_CodecFrom100 ==
    /\ (p_pc = "parsed" /\ CivilOf(p_in.date)[3] >= 100) => p_out.date = p_in.date
    /\ (p_pc = "validated" /\ (HasPattern(p_in.text) => Fields(p_in.text)[3] >= 100))
          => (p_out.valid <=> NamesCalendarDate(p_in.text))

\* ---------------------------------------------------------------------
\* C19: a team value persisted in the old format, a bare list of jobs, is
\* returned by get-schedule as a slot with assigned_workers empty and the
\* jobs of that list, all of them and in their order, as addresses, on
\* every read that gets the stored schedule (with or without from/to);
\* instances of recurring rules for the slot come after the stored jobs; the
\* read does not rewrite the persisted value.
C19_LegacyRead ==
    /\ [](\A params \in ReqParams :
            \A snap \in {ScheduleBody(store, params, tz)} :
              \A d \in DOMAIN store[ScheduleKey] :
                \A t \in DOMAIN store[ScheduleKey][d] :
                  ArrayIsArray(store[ScheduleKey][d][t]) =>
                    \A items \in {store[ScheduleKey][d][t].items} :
                      /\ d \in DOMAIN snap
                      /\ t \in DOMAIN snap[d]
                      /\ DOMAIN snap[d][t] = {"assigned_workers", "addresses"}
                      /\ snap[d][t].assigned_workers = <<>>
                      /\ IsPrefix(items, snap[d][t].addresses)
                      /\ \A k \in (Len(items) + 1)..Len(snap[d][t].addresses) :
                            /\ snap[d][t].addresses[k].is_recurring
                            /\ snap[d][t].addresses[k].id.suffix = d)
    /\ [][resp'.op = "get-schedule" =>
            store' = store /\ resp'.writes = <<>> /\ nWrites' = nWrites]_vars

C19_Witness ==
    /\ Returned
    /\ store = LegacyStore
    /\ Len(snapshot[D1]["Team_A"].addresses) = 3
    /\ SubSeq(snapshot[D1]["Team_A"].addresses, 1, 2) = store[ScheduleKey][D1]["Team_A"].items
    /\ snapshot[D1]["Team_A"].addresses[3].id = InstanceId(Uuid(4), D1)
    /\ snapshot[D1]["Team_A"].assigned_workers = <<>>
    /\ Len(snapshot[D2]["Team_A"].addresses) = 1

\* ---------------------------------------------------------------------
\* C20: the mutating operations treat a team value in the old format as
\* the read does.  add-job on such a slot keeps every stored job and adds
\* the new one, so that the next get-schedule shows the stored jobs and
\* the new job; cancel-job and delete-job find a job that sits in such a
\* slot.
LegacySlots ==
    { dt \in (DOMAIN store[ScheduleKey]) \X Teams :
        /\ dt[2] \in DOMAIN store[ScheduleKey][dt[1]]
        /\ ArrayIsArray(store[ScheduleKey][dt[1]][dt[2]]) }

\* The jobs that get-schedule shows for a slot of store st
ShownJobs(st, d, t) == AddressesOf(ScheduleBody(st, <<>>, tz), d, t)

LegacyAddKeeps ==
    \A dt \in LegacySlots : \A rq \in ReqAddJobs :
        (rq[1] = dt[1] /\ rq[2] = dt[2]) =>
            \A r \in {addJob(store, nextId, rq[1], rq[2], rq[3], rq[4])} :
                r.status = 201 =>
                    \A shown \in {ShownJobs(r.store, dt[1], dt[2])} :
                        /\ IsPrefix(store[ScheduleKey][dt[1]][dt[2]].items, shown)
                        /\ Includes(shown, r.job)

LegacyCancelFinds ==
    \A dt \in LegacySlots :
        \A j \in Range(store[ScheduleKey][dt[1]][dt[2]].items) :
            cancelJob(store, dt[1], dt[2], j.id).status = 200

LegacyDeleteFinds ==
    \A dt \in LegacySlots :
        \A j \in Range(store[ScheduleKey][dt[1]][dt[2]].items) :
            deleteJob(store, dt[1], dt[2], j.id).status = 200

C20_LegacyMutations ==
    LegacyAddKeeps /\ LegacyCancelFinds /\ LegacyDeleteFinds

\* ---------------------------------------------------------------------
\* C21: get-schedule reports no error because of the schedule store.  When
\* the read of the schedule throws, or gives nothing or an empty object,
\* the answer is 200 and is built on a default window generated for the
\* request: the 7 consecutive dates from today on (28-02-2026 in the
\* model), each with Team_A and Team_B, empty assigned_workers and, before
\* projection, empty addresses.
DefaultWindow ==
    {<<28, 2, 2026>>, <<1, 3, 2026>>, <<2, 3, 2026>>, <<3, 3, 2026>>,
     <<4, 3, 2026>>, <<5, 3, 2026>>, <<6, 3, 2026>>}

\* The ways in which the schedule store gives get-schedule nothing to show
NoScheduleCases ==
    {{ScheduleKey}, {ScheduleKey, RecurringKey}}
    \cup (IF DOMAIN store[ScheduleKey] = {} THEN {{}, {RecurringKey}} ELSE {})

C21_DefaultWindow ==
    \A params \in ReqParams : \A failing \in NoScheduleCases :
        \A r \in {getSchedule(store, params, tz, failing)} :
            /\ r.status = 200
            /\ r.store = store
            /\ DefaultWindow \subseteq DOMAIN r.body
            /\ params = <<>> => DOMAIN r.body = DefaultWindow
            /\ \A d \in DefaultWindow :
                  /\ DOMAIN r.body[d] = Teams
                  /\ \A t \in Teams :
                        /\ r.body[d][t].assigned_workers = <<>>
                        /\ \A k \in 1..Len(r.body[d][t].addresses) :
                              r.body[d][t].addresses[k].is_recurring
                        /\ (RecurringKey \in failing \/ store[RecurringKey] = <<>>)
                              => r.body[d][t] = EmptySlot

C21_Witness ==
    /\ Returned
    /\ store[ScheduleKey] = SeedSchedule
    /\ DOMAIN snapshot = DefaultWindow
    /\ snapshot[<<28, 2, 2026>>] = EmptyDay
    /\ Len(snapshot[D1]["Team_A"].addresses) = 1
    /\ snapshot[D1]["Team_A"].addresses[1].is_recurring
    /\ snapshot[D1]["Team_B"] = EmptySlot

\* ---------------------------------------------------------------------
\* C22: for a get-schedule request with valid from <= to the snapshot has
\* an entry for every date from from to to; a date that was not persisted
\* shows both teams with empty lists plus projected instances, a persisted
\* date keeps its content, the projection covers every date key of the
\* snapshot, also persisted ones outside the range; and the loop that pads
\* the range ends: every run of the request leaves the loop.
RangeOf(params) ==
    { formatDateKey(c) : c \in parseDateKey(params.from)..parseDateKey(params.to) }

\* What get-schedule starts from: the stored schedule, the default window
\* when there is none
BaseOf(st) ==
    IF DOMAIN st[ScheduleKey] = {} THEN [d \in DefaultWindow |-> EmptyDay]
    ELSE st[ScheduleKey]

PaddedRight ==
    \A base \in {BaseOf(p_in.store)} : \A range \in {RangeOf(p_in.params)} :
        /\ range # {}
        /\ DOMAIN p_out = DOMAIN base \cup range
        /\ \A d \in range \ DOMAIN base : \A t \in Teams :
              /\ DOMAIN p_out[d] = Teams
              /\ p_out[d][t].assigned_workers = <<>>
              /\ \A k \in 1..Len(p_out[d][t].addresses) :
                    p_out[d][t].addresses[k].is_recurring
        /\ \A d \in DOMAIN base : \A t \in DOMAIN base[d] :
              /\ t \in DOMAIN p_out[d]
              /\ p_out[d][t].assigned_workers = base[d][t].assigned_workers
              /\ IsPrefix(base[d][t].addresses, p_out[d][t].addresses)
              /\ \A k \in (Len(base[d][t].addresses) + 1)..Len(p_out[d][t].addresses) :
                    p_out[d][t].addresses[k].is_recurring
        /\ \A d \in DOMAIN p_out :
              \A i \in 1..Len(p_in.store[RecurringKey]) :
                \A r \in {p_in.store[RecurringKey][i]} :
                  CountInstances(p_out, r.id, d, r.team_id)
                    = IF /\ ~r.paused
                         /\ Due(r, d)
                         /\ ~Includes(r.exceptions, d)
                         /\ CountRecurring(base, r.id, d, r.team_id) = 0
                      THEN 1 ELSE 0
        /\ p_out = ScheduleBody(p_in.store, p_in.params, tz)

C22_RangePadded ==
    /\ [](p_pc = "done" => PaddedRight)
    /\ <>(p_pc \in {"project", "done"})

C22_Witness ==
    /\ p_pc = "done"
    /\ tz = "Europe"
    /\ p_in.store = SeedStore
    /\ p_in.params = [from |-> <<27, 3, 2026>>, to |-> D5]
    /\ DOMAIN p_out = {D1, D2, <<27, 3, 2026>>, <<28, 3, 2026>>, <<29, 3, 2026>>, D5}
    /\ Len(p_out[D5]["Team_A"].addresses) = 1
    /\ Len(p_out[D2]["Team_A"].addresses) = 1
    /\ Len(p_out[D1]["Team_A"].addresses) = 3
    /\ p_out[D1]["Team_A"].assigned_workers = <<"Amylea", "Angelo">>

\* ---------------------------------------------------------------------
\* C23: cancel-recurring-instance never shrinks rule.exceptions and keeps it
\* free of duplicates: over every step, a rule that is still stored has its
\* former exceptions as a prefix of its exceptions, at most one date longer
\* and without a repeated date; a rule leaves the store only by
\* delete-recurring-job.
NoRepeat(seq) == \A i, k \in 1..Len(seq) : seq[i] = seq[k] => i = k

RuleWithId(recurringJobs, id) ==
    { recurringJobs[i] : i \in { k \in 1..Len(recurringJobs) :
                                    recurringJobs[k].id = id } }

C23_ExceptionsGrow ==
    [][\A before \in {store[RecurringKey]} : \A after \in {store'[RecurringKey]} :
         \A i \in 1..Len(before) :
            /\ RuleWithId(after, before[i].id) = {}
                  => /\ resp'.op = "delete-recurring-job"
                     /\ resp'.status = 200
                     /\ job' = before[i]
            /\ \A rule \in RuleWithId(after, before[i].id) :
                  /\ IsPrefix(before[i].exceptions, rule.exceptions)
                  /\ Len(rule.exceptions) <= Len(before[i].exceptions) + 1
                  /\ NoRepeat(rule.exceptions)
                  /\ Len(rule.exceptions) > Len(before[i].exceptions)
                        => /\ resp'.op = "cancel-recurring-instance"
                           /\ resp'.status = 200]_vars

\* The seeded rule after two writes, the last a cancellation that answered
\* 200 and left the single exception D1
C23_Witness ==
    /\ resp.op = "cancel-recurring-instance"
    /\ resp.status = 200
    /\ nWrites = 2
    /\ store = [SeedStore EXCEPT ![RecurringKey][1].exceptions = <<D1>>]
    /\ job = store[RecurringKey][1]

\* ---------------------------------------------------------------------
\* C24 as stated: cancel-recurring-instance answers NotFound (404) when the
\* rule id is absent and also when the date fails DateKey validation, and
\* leaves the store unchanged in both cases.
CancelDates == ReqDates \cup {Malformed}

C24_NotFoundForBoth ==
    \A rule_id \in ReqRuleIds : \A date \in CancelDates :
        \A r \in {cancelRecurringInstance(store, rule_id, date)} :
            (RuleWithId(store[RecurringKey], rule_id) = {} \/ ~IsCalendarDate(date))
                => r.status = 404 /\ r.store = store /\ r.writes = <<>>

\* C24: cancel-recurring-instance answers ValidationError (400) when the date
\* fails DateKey validation, whether or not the rule exists, and NotFound
\* (404) when the date is valid and the rule id is absent; in both cases
\* nothing is written and the store is unchanged.
C24_CancelErrors ==
    \A rule_id \in ReqRuleIds : \A date \in CancelDates :
        \A r \in {cancelRecurringInstance(store, rule_id, date)} :
            /\ ~IsCalendarDate(date)
                  => r.status = 400 /\ r.store = store /\ r.writes = <<>>
            /\ (IsCalendarDate(date) /\ RuleWithId(store[RecurringKey], rule_id) = {})
                  => r.status = 404 /\ r.store = store /\ r.writes = <<>>
            /\ (IsCalendarDate(date) /\ RuleWithId(store[RecurringKey], rule_id) # {})
                  => r.status = 200

\* A cancellation was answered 400 while a rule is stored: the request named
\* a date that is not valid
C24_Witness ==
    /\ resp.op = "cancel-recurring-instance"
    /\ resp.status = 400
    /\ resp.writes = <<>>
    /\ store = SeedStore

\* ---------------------------------------------------------------------
\* C25: edit-recurring-job has patch semantics: it answers success for a
\* stored rule, and then each editable field present in the request holds
\* the value of the request (strings trimmed), each absent field and each
\* field that is not editable keeps its value, and all other rules are
\* unchanged; an unknown rule id yields NotFound with the store unchanged.
EditableFields == {"street", "house_number", "team_id", "frequency", "paused"}

PatchValue(f, v) == IF f \in {"street", "house_number"} THEN Trim(v) ELSE v

Patched(before, after, body) ==
    /\ \A f \in EditableFields :
          after[f] = IF f \in DOMAIN body THEN PatchValue(f, body[f]) ELSE before[f]
    /\ \A f \in DOMAIN before \ EditableFields : after[f] = before[f]
    /\ DOMAIN after = DOMAIN before

EditAnswers(body, Ok(_)) ==
    \A rule_id \in ReqRuleIds :
        \A r \in {editRecurringJob(store, rule_id, body)} :
            \A before \in {store[RecurringKey]} : \A after \in {r.store[RecurringKey]} :
                IF RuleWithId(before, rule_id) = {}
                THEN r.status = 404 /\ r.store = store /\ r.writes = <<>>
                ELSE /\ r.status = 200
                     /\ r.store[ScheduleKey] = store[ScheduleKey]
                     /\ Len(after) = Len(before)
                     /\ \A i \in 1..Len(before) :
                           IF before[i].id = rule_id
                           THEN Ok(<<before[i], after[i], r.job>>)
                           ELSE after[i] = before[i]

C25_PatchSemantics ==
    \A body \in RulePatches :
        LET Ok(x) == Patched(x[1], x[2], body) /\ x[3] = x[2]
        IN  EditAnswers(body, Ok)

\* The same for the patches whose team_id and frequency, when present, are
\* valid
ValidPatch(body) ==
    /\ "team_id" \in DOMAIN body => body.team_id \in Teams
    /\ "frequency" \in DOMAIN body => body.frequency \in Frequencies

C25_ValidPatches ==
    \A body \in {b \in RulePatches : ValidPatch(b)} :
        LET Ok(x) == Patched(x[1], x[2], body) /\ x[3] = x[2]
        IN  EditAnswers(body, Ok)

\* ---------------------------------------------------------------------
\* C26: a request that names an unknown team id or a frequency outside
\* {weekly, fortnightly} is answered with ValidationError (400) and nothing
\* is written, by add-job, add-recurring-job and edit-recurring-job alike.
BadTeamOrFrequency(body) ==
    \/ "team_id" \in DOMAIN body /\ body.team_id \notin Teams
    \/ "frequency" \in DOMAIN body /\ body.frequency \notin Frequencies

Rejected(r) == r.status = 400 /\ r.store = store /\ r.writes = <<>>

AddsRejectInvalid ==
    /\ \A body \in {b \in RuleBodies : BadTeamOrFrequency(b)} :
          Rejected(addRecurringJob(store, nextId, body))
    /\ \A rq \in {q \in ReqAddJobs : q[2] \notin Teams} :
          Rejected(addJob(store, nextId, rq[1], rq[2], rq[3], rq[4]))

EditsRejectInvalid ==
    \A body \in {b \in RulePatches : BadTeamOrFrequency(b)} :
        \A rule_id \in RuleIdsOf(store[RecurringKey]) :
            Rejected(editRecurringJob(store, rule_id, body))

C26_InvalidRejected == AddsRejectInvalid /\ EditsRejectInvalid

\* ---------------------------------------------------------------------
\* C27: add-recurring-job with street, house_number, team_id, start_date and
\* frequency all given, a start_date that names a calendar day, a known team
\* and a frequency of weekly or fortnightly answers 201 and appends one rule
\* with the request's values, a new id, exceptions = [] and paused = false,
\* leaving the rules before it and the schedule unchanged; a get-schedule
\* that follows shows exactly one instance of the rule on its start_date
\* under its team whenever that date is in the snapshot.  Any other request
\* is answered 400 and stores nothing.
RequiredText == {"street", "house_number", "team_id", "frequency"}

WellFormedRule(body) ==
    /\ \A f \in RequiredText : body[f] # ""
    /\ body.start_date # <<>>
    /\ IsCalendarDate(body.start_date)
    /\ body.team_id \in Teams
    /\ body.frequency \in Frequencies

C27_AddRecurring ==
    \A body \in RuleBodies :
        \A r \in {addRecurringJob(store, nextId, body)} :
            IF WellFormedRule(body)
            THEN /\ r.status = 201
                 /\ r.writes = <<RecurringKey>>
                 /\ r.store[ScheduleKey] = store[ScheduleKey]
                 /\ r.store[RecurringKey] = Append(store[RecurringKey], r.job)
                 /\ r.job.id \notin RuleIdsOf(store[RecurringKey])
                 /\ r.job.exceptions = <<>>
                 /\ r.job.paused = FALSE
                 /\ r.job.street = Trim(body.street)
                 /\ r.job.house_number = Trim(body.house_number)
                 /\ r.job.team_id = body.team_id
                 /\ r.job.start_date = body.start_date
                 /\ r.job.frequency = body.frequency
                 /\ \A params \in ReqParams :
                       \A snap \in {ScheduleBody(r.store, params, tz)} :
                           body.start_date \in DOMAIN snap
                             => CountInstances(snap, r.job.id, body.start_date,
                                               body.team_id) = 1
            ELSE Rejected(r)

\* A snapshot taken after a fortnightly rule was added to the seeded rule:
\* it shows the new rule on its start date under its team
C27_Witness ==
    /\ Returned
    /\ Len(store[RecurringKey]) = 2
    /\ store[RecurringKey][1] = SeedRules[1]
    /\ store[RecurringKey][2].frequency = "fortnightly"
    /\ store[RecurringKey][2].exceptions = <<>>
    /\ ~store[RecurringKey][2].paused
    /\ D2 \in DOMAIN snapshot
    /\ CountInstances(snapshot, store[RecurringKey][2].id, D2, "Team_B") = 1

\* ---------------------------------------------------------------------
\* C28: delete-recurring-job for a stored rule id answers 200, returns that
\* rule and removes it and nothing else (the other rules keep their values
\* and order, the schedule is untouched); a get-schedule that follows shows
\* no projected instance of the rule on any date, and a second delete, an
\* edit and a cancel-instance with the same id are answered NotFound (404)
\* and change nothing.  For an id that is not stored the first delete is
\* answered 404 as well.  No snapshot shows a projected instance of a rule
\* that is not stored.
Without(recurringJobs, id) ==
    SelectSeq(recurringJobs, LAMBDA rule : rule.id # id)

NoInstanceOf(snap, id) ==
    \A d \in DOMAIN snap : \A t \in DOMAIN snap[d] :
        \A k \in 1..Len(snap[d][t].addresses) :
            \A j \in {snap[d][t].addresses[k]} :
                j.is_recurring => j.recurring_id # id

Gone(st, id) ==
    /\ \A params \in ReqParams : NoInstanceOf(ScheduleBody(st, params, tz), id)
    /\ \A r \in {deleteRecurringJob(st, id)} \cup
                 {editRecurringJob(st, id, body) : body \in ReqPatches} \cup
                 {cancelRecurringInstance(st, id, date) : date \in {D1, D2}} :
          r.status = 404 /\ r.store = st /\ r.writes = <<>>

C28_DeleteRecurring ==
    /\ \A rule_id \in ReqRuleIds :
          \A r \in {deleteRecurringJob(store, rule_id)} :
              IF RuleWithId(store[RecurringKey], rule_id) = {}
              THEN r.status = 404 /\ r.store = store /\ r.writes = <<>>
              ELSE /\ r.status = 200
                   /\ RuleWithId(store[RecurringKey], rule_id) = {r.job}
                   /\ r.store[RecurringKey] = Without(store[RecurringKey], rule_id)
                   /\ r.store[ScheduleKey] = store[ScheduleKey]
                   /\ Gone(r.store, rule_id)
    /\ Returned =>
          \A d \in DOMAIN snapshot : \A t \in DOMAIN snapshot[d] :
              \A k \in 1..Len(snapshot[d][t].addresses) :
                  \A j \in {snapshot[d][t].addresses[k]} :
                      j.is_recurring
                        => j.recurring_id \in RuleIdsOf(store[RecurringKey])

\* A snapshot taken after a rule was added to the seeded store and the
\* seeded rule was deleted: the added rule is all that is stored, and the
\* seeded rule's start date shows its hand-placed job but no instance of it
C28_Witness ==
    /\ Returned
    /\ nWrites = 2
    /\ store[ScheduleKey] = SeedSchedule
    /\ RuleIdsOf(store[RecurringKey]) = {Uuid(5)}
    /\ D1 \in DOMAIN snapshot
    /\ NoInstanceOf(snapshot, Uuid(4))
    /\ CountRecurring(snapshot, Uuid(4), D1, "Team_B") = 1

\* ---------------------------------------------------------------------
\* C30: every job of every snapshot that get-schedule returns, persisted or
\* projected, has a street and a house_number that are not empty, whatever
\* add-job, add-recurring-job and edit-recurring-job requests came before.
C30_AddressesNonEmpty ==
    Returned =>
        \A d \in DOMAIN snapshot : \A t \in DOMAIN snapshot[d] :
            \A k \in 1..Len(snapshot[d][t].addresses) :
                /\ snapshot[d][t].addresses[k].street # ""
                /\ snapshot[d][t].addresses[k].house_number # ""

\* The same for the jobs that are persisted
C30_PersistedNonEmpty ==
    \A d \in DOMAIN store[ScheduleKey] : \A t \in DOMAIN store[ScheduleKey][d] :
        \A k \in 1..Len(store[ScheduleKey][d][t].addresses) :
            /\ store[ScheduleKey][d][t].addresses[k].street # ""
            /\ store[ScheduleKey][d][t].addresses[k].house_number # ""

\* ---------------------------------------------------------------------
\* C29: a lost update is reachable: when two add-job requests interleave as
\* read-A, read-B, write-A, write-B, both are answered 201 and the schedule
\* that is stored in the end holds B's job but not A's; it is what B's
\* request alone makes of the schedule both had read.  When one request
\* writes before the other reads, both jobs are stored.
Interleaved(a, b) ==
    p_prev.trace = <<<<"read", a>>, <<"read", b>>, <<"write", a>>, <<"write", b>>>>

Serial(a, b) ==
    p_prev.trace = <<<<"read", a>>, <<"write", a>>, <<"read", b>>, <<"write", b>>>>

Stored(c) == p_prev.job[c].id \in JobIdsOf(store[ScheduleKey])

C29_LostUpdate ==
    \A a \in Racers : \A b \in Racers \ {a} :
        /\ Interleaved(a, b) =>
              /\ p_prev.status[a] = 201 /\ p_prev.status[b] = 201
              /\ p_prev.job[a] # NoJob /\ p_prev.job[b] # NoJob
              /\ Stored(b)
              /\ ~Stored(a)
              /\ p_out[a] = p_out[b]
              /\ JobIdsOf(store[ScheduleKey])
                    = JobIdsOf(p_out[b]) \cup {p_prev.job[b].id}
        /\ Serial(a, b) =>
              /\ p_prev.status[a] = 201 /\ p_prev.status[b] = 201
              /\ Stored(a) /\ Stored(b)

\* Both requests are for the same slot of the seeded schedule, were answered
\* 201 after the interleaving, and the first writer's job is not stored
C29_Witness ==
    /\ Interleaved("A", "B")
    /\ p_in["A"] = <<D1, "Team_A", GoodAddress, <<>>>>
    /\ p_in["B"] = p_in["A"]
    /\ p_prev.status = [c \in Racers |-> 201]
    /\ Len(store[ScheduleKey][D1]["Team_A"].addresses) = 3
    /\ store[ScheduleKey][D1]["Team_A"].addresses[3] = p_prev.job["B"]
    /\ ~Stored("A")

\* ---------------------------------------------------------------------
\* C32: every job of the persisted schedule has a status of pending,
\* completed or cancelled; a job that add-job creates from an address
\* without status is pending; every projected instance of a snapshot is
\* pending; and over every step a persisted job that is cancelled and is
\* still stored is still cancelled.
Statuses == {"pending", "completed", "cancelled"}

JobsAt(schedule, d, t) ==
    { AddressesOf(schedule, d, t)[k] : k \in 1..Len(AddressesOf(schedule, d, t)) }

StatusesValid ==
    /\ \A d \in DOMAIN store[ScheduleKey] : \A t \in Teams :
          \A j \in JobsAt(store[ScheduleKey], d, t) : j.status \in Statuses
    /\ \A rq \in {q \in ReqAddJobs : q[3].status = ""} :
          \A r \in {addJob(store, nextId, rq[1], rq[2], rq[3], rq[4])} :
              r.status = 201 => r.job.status = "pending"
    /\ Returned =>
          \A d \in DOMAIN snapshot : \A t \in Teams :
              \A j \in JobsAt(snapshot, d, t) :
                  j.is_recurring => j.status = "pending"

CancelledStays ==
    \A d \in DOMAIN store[ScheduleKey] : \A t \in Teams :
        \A j \in JobsAt(store[ScheduleKey], d, t) :
            j.status = "cancelled" =>
                \A d2 \in DOMAIN store'[ScheduleKey] : \A t2 \in Teams :
                    \A j2 \in JobsAt(store'[ScheduleKey], d2, t2) :
                        j2.id = j.id => j2.status = "cancelled"

C32_Statuses == [](StatusesValid) /\ [][CancelledStays]_vars

\* A job was added without status next to the cancelled job of the seeded
\* schedule, after another write: the new job is pending, the cancelled one
\* still cancelled
C32_Witness ==
    /\ resp.op = "add-job"
    /\ resp.status = 201
    /\ nWrites = 2
    /\ job.status = "pending"
    /\ Len(AddressesOf(store[ScheduleKey], D1, "Team_A")) = 3
    /\ AddressesOf(store[ScheduleKey], D1, "Team_A")[2].status = "cancelled"
    /\ AddressesOf(store[ScheduleKey], D1, "Team_A")[3] = job

\* ---------------------------------------------------------------------
\* C36: cancel-job and delete-job never see projected data: called with the
\* date, team and id of a projected instance that get-schedule shows, each
\* answers NotFound (404), writes nothing and leaves both stores as they
\* are; and over every step, an instance that get-schedule showed before
\* and does not show after went away in a request on its rule
\* (cancel-recurring-instance, edit-recurring-job, delete-recurring-job).
ShownInstances(st) ==
    UNION { { <<d, j.id>> : j \in {x \in JobsAt(snap, d, "Team_A")
                                             \cup JobsAt(snap, d, "Team_B") :
                                     x.is_recurring} } :
            <<snap, d>> \in UNION { {<<sn, d>> : d \in DOMAIN sn} :
                                     sn \in {ScheduleBody(st, params, tz) :
                                               params \in ReqParams} } }

RuleRequests ==
    {"cancel-recurring-instance", "edit-recurring-job", "delete-recurring-job"}

InstancesOutOfReach ==
    \A params \in ReqParams : \A snap \in {ScheduleBody(store, params, tz)} :
        \A d \in DOMAIN snap : \A t \in Teams :
            \A j \in {x \in JobsAt(snap, d, t) : x.is_recurring} :
                \A r \in {cancelJob(store, d, t, j.id), deleteJob(store, d, t, j.id)} :
                    r.status = 404 /\ r.writes = <<>> /\ r.store = store

VirtualJobs(st) ==
    UNION { { j \in JobsAt(st[ScheduleKey], d, t) :
                 j.recurring_id # NoId \/ j.is_recurring } :
            <<d, t>> \in (DOMAIN st[ScheduleKey]) \X Teams }

VirtualIds(st) == { j.id : j \in VirtualJobs(st) }

InstanceAddress ==
    [street |-> "Oak Ave", house_number |-> "5", status |-> "pending",
     id |-> InstanceId(Uuid(4), D1), recurring_id |-> Uuid(4), is_recurring |-> TRUE]

NoVirtualStored ==
    /\ \A j \in VirtualJobs(store) : j.id = Uuid(3)
    /\ \A r \in {addJob(store, nextId, D1, "Team_A", InstanceAddress, <<>>)} :
          /\ r.status = 201
          /\ r.job.recurring_id = NoId
          /\ ~r.job.is_recurring
          /\ r.job.id \notin {InstanceAddress.id} \cup JobIdsOf(store[ScheduleKey])
          /\ VirtualIds(r.store) = VirtualIds(store)

C37_NoVirtualPersisted ==
    /\ [](NoVirtualStored)
    /\ [][/\ VirtualIds(store') \subseteq VirtualIds(store)
          /\ resp'.op = "get-schedule" => store' = store /\ resp'.writes = <<>>]_vars

\* Two jobs were added to the empty store, the last by add-job: neither
\* carries a recurring field
C37_Witness ==
    /\ resp = [op |-> "add-job", status |-> 201, writes |-> <<ScheduleKey>>]
    /\ nWrites = 2
    /\ store[RecurringKey] = <<>>
    /\ Cardinality(JobIdsOf(store[ScheduleKey])) = 2
    /\ Uuid(1) \notin JobIdsOf(store[ScheduleKey])
    /\ VirtualJobs(store) = {}

InvalidRanges ==
    {[from |-> BadDate, to |-> <<5, 3, 2026>>],
     [from |-> D1, to |-> BadDate],
     [from |-> BadDate, to |-> BadDate]}

C35_InvalidRangeRefused ==
    \A params \in InvalidRanges :
        \A r \in {getSchedule(store, params, tz, {})} :
            \/ r.status = 400
            \/ r.status = 200 /\ r.body = ScheduleBody(store, <<>>, tz)

\* What the handler does with such a range: it pads from and to the days
\* that Date makes of the fields, 31-02-2026 being 03-03-2026
NormalisedRange(params) ==
    { formatDateKey(c) :
        c \in MakeDay(params.from[3], params.from[2] - 1, params.from[1])
              ..MakeDay(params.to[3], params.to[2] - 1, params.to[1]) }

C35_RangeNormalised ==
    \A params \in InvalidRanges :
        \A r \in {getSchedule(store, params, tz, {})} :
            /\ r.status = 200
            /\ <<3, 3, 2026>> \in NormalisedRange(params)
            /\ NormalisedRange(params) \subseteq DOMAIN r.body
            /\ BadDate \notin DOMAIN r.body

\* ---------------------------------------------------------------------
\* C38: an exception can be lost under concurrent requests: when
\* cancel-recurring-instance(r, d) and edit-recurring-job(r, ...) interleave
\* as read-cancel, read-edit, write-cancel, write-edit, both are answered
\* 200, the stored rule is the rule as read with the edit alone applied, so
\* it has no exception for d, and the get-schedule that follows shows what
\* it would show had the cancellation never been made: the occurrence on d
\* is there again when the edited rule is not paused and still due on d.
\* In the other orders of the two writes the exception is stored, unless the
\* cancellation wrote last over an edit it had not read.
CancelLost ==
    p_prev.trace = <<<<"read", "cancel">>, <<"read", "edit">>,
                     <<"write", "cancel">>, <<"write", "edit">>>>

CancelFirst ==
    p_prev.trace = <<<<"read", "cancel">>, <<"write", "cancel">>,
                     <<"read", "edit">>, <<"write", "edit">>>>

EditAlone == <<ApplyPatch(SeedRules[1], p_in.edit[2])>>

C38_LostException ==
    /\ CancelLost =>
          /\ p_prev.status = [c \in RuleRacers |-> 200]
          /\ store[RecurringKey] = EditAlone
          /\ ~Includes(store[RecurringKey][1].exceptions, p_in.cancel[2])
          /\ store[ScheduleKey] = SeedSchedule
          /\ Returned =>
                /\ snapshot = ScheduleBody([SeedStore EXCEPT ![RecurringKey] = EditAlone],
                                           [from |-> D1, to |-> D2], tz)
                /\ (~EditAlone[1].paused /\ Due(EditAlone[1], p_in.cancel[2]))
                      => CountInstances(snapshot, Uuid(4), p_in.cancel[2], "Team_A") = 1
    /\ CancelFirst =>
          /\ p_prev.status = [c \in RuleRacers |-> 200]
          /\ store[RecurringKey][1].exceptions = <<p_in.cancel[2]>>
          /\ Returned =>
                CountInstances(snapshot, Uuid(4), p_in.cancel[2], "Team_A") = 0

\* The cancellation of 09-03-2026 and a change of street interleaved that
\* way, both answered 200: the snapshot shows the occurrence of 09-03-2026
\* with the new street
C38_Witness ==
    /\ CancelLost
    /\ Returned
    /\ p_in.cancel = <<Uuid(4), D2>>
    /\ p_in.edit = <<Uuid(4), [f \in {"street"} |-> "Elm Road"]>>
    /\ p_prev.status = [c \in RuleRacers |-> 200]
    /\ store[RecurringKey][1].exceptions = <<>>
    /\ CountInstances(snapshot, Uuid(4), D2, "Team_A") = 1
    /\ snapshot[D2]["Team_A"].addresses[1].street = "Elm Road"

\* ---------------------------------------------------------------------
\* C39: edit-recurring-job never changes a rule's id, start_date,
\* exceptions or created_at, whether or not the request carries them: after
\* any edit the list has the same rules in the same order, each with those
\* four fields as before, and the rule in the answer has them too.
FrozenFields == {"id", "start_date", "exceptions", "created_at"}

SameFrozen(before, after) == \A f \in FrozenFields : after[f] = before[f]

C39_EditFrame ==
    \A body \in RulePatches : \A rule_id \in ReqRuleIds :
        \A r \in {editRecurringJob(store, rule_id, body)} :
            \A before \in {store[RecurringKey]} : \A after \in {r.store[RecurringKey]} :
                /\ Len(after) = Len(before)
                /\ \A i \in 1..Len(before) : SameFrozen(before[i], after[i])
                /\ r.status = 200 =>
                      \E i \in 1..Len(before) :
                          before[i].id = rule_id /\ SameFrozen(before[i], r.job)

\* The seeded rule after the edit that carried another id, start_date,
\* exceptions and created_at along with the street "Mill Lane": the street
\* is stored, the four fields are the seeded ones
C39_Witness ==
    /\ resp.op = "edit-recurring-job"
    /\ resp.status = 200
    /\ job.street = "Mill Lane"
    /\ job.id = Uuid(4)
    /\ \E i \in 1..Len(store[RecurringKey]) :
          /\ store[RecurringKey][i] = job
          /\ SameFrozen(SeedRules[1], job)
          /\ \A f \in FrozenFields : job[f] # FrozenPatch[f]

\* ---------------------------------------------------------------------
\* C31: an edit of a rule acts on every later read, with no backfill: in
\* the schedule returned by a get-schedule after edit-recurring-job, every
\* projected instance of the rule is under the rule's team as edited, on a
\* date due under its frequency as edited, and carries its street,
\* house_number and frequency as edited, on every date of the body, dates
\* earlier than the edit included; and on each date the rule's team has
\* exactly one instance when the edited rule is due, not paused, not
\* excepted and has no persisted job of its own there, and none otherwise.
InstancesOf(schedule, rid) ==
    UNION { { <<x[1], x[2], j>> :
                j \in {i \in JobsAt(schedule, x[1], x[2]) :
                          i.id = InstanceId(rid, x[1])} } :
            x \in (DOMAIN schedule) \X Teams }

ShowsRule(schedule, persisted, rule) ==
    /\ \A x \in InstancesOf(schedule, rule.id) :
          \A j \in {x[3]} :
              /\ x[2] = rule.team_id
              /\ Due(rule, x[1])
              /\ j.street = rule.street
              /\ j.house_number = rule.house_number
              /\ j.frequency = rule.frequency
              /\ j.recurring_id = rule.id
    /\ \A d \in DOMAIN schedule :
          CountInstances(schedule, rule.id, d, rule.team_id)
            = IF /\ Due(rule, d)
                 /\ ~rule.paused
                 /\ ~Includes(rule.exceptions, d)
                 /\ CountRecurring(persisted, rule.id, d, rule.team_id) = 0
              THEN 1 ELSE 0

ProjectedFields == {"team_id", "frequency", "street", "house_number"}

\* The step is an edit-recurring-job that changed a projected field of a rule
EditChanged ==
    /\ resp'.op = "edit-recurring-job"
    /\ resp'.status = 200
    /\ \E rule \in RuleWithId(store[RecurringKey], job'.id) :
          \E f \in ProjectedFields : job'[f] # rule[f]

C31_EditsRetroactive ==
    [][EditChanged =>
          /\ RuleWithId(store'[RecurringKey], job'.id) = {job'}
          /\ \A params \in ReqParams :
                \A snap \in {ScheduleBody(store', params, tz)} :
                    ShowsRule(snap, store'[ScheduleKey], job')]_vars

\* The seeded rule (Team_A, Oak Ave) after its street was edited to Elm Road
\* and its team to Team_B, read over 02-03..09-03-2026: the occurrence of
\* 09-03-2026 is under Team_B with the street Elm Road, and Team_A has no
\* instance on either date
C31_Witness ==
    /\ resp.op = "get-schedule"
    /\ Returned
    /\ Len(store[RecurringKey]) > 0
    /\ store[RecurringKey][1].id = Uuid(4)
    /\ store[RecurringKey][1].team_id = "Team_B"
    /\ store[RecurringKey][1].street = "Elm Road"
    /\ ~store[RecurringKey][1].paused
    /\ {D1, D2} \subseteq DOMAIN snapshot
    /\ CountInstances(snapshot, Uuid(4), D2, "Team_B") = 1
    /\ CountInstances(snapshot, Uuid(4), D1, "Team_A") = 0
    /\ CountInstances(snapshot, Uuid(4), D2, "Team_A") = 0
    /\ \A x \in InstancesOf(snapshot, Uuid(4)) : x[3].street = "Elm Road"

\* ---------------------------------------------------------------------
\* C33: expected_hours is never negative: the job written by add-job, the
\* rule written by add-recurring-job and by edit-recurring-job and the
\* projected instance each have a number expected_hours >= 0, and a missing
\* or non-numeric input is stored as 0.
NonNegative(v) == v.t = "number" /\ ~v.nan /\ v.m >= 0

\* The value is a number, or text that begins, after white space and an
\* optional sign, with a digit or with a point and a digit
Numeric(v) ==
    \/ v.t = "number" /\ ~v.nan
    \/ /\ v.t = "string"
       /\ \E k \in 1..Len(v.s) : \E w \in 0..(k - 1) :
             /\ v.s[k] \in Digits
             /\ \A i \in 1..w : v.s[i] \in WhiteSpace
             /\ SubSeq(v.s, w + 1, k - 1) \in {<<>>, <<"-">>, <<".">>, <<"-", ".">>}

\* The value is a negative number, or text whose first character after
\* white space is the minus sign
Negative(v) ==
    \/ v.t = "number" /\ v.m < 0
    \/ v.t = "string" /\ \E k \in 1..Len(v.s) :
          v.s[k] = "-" /\ \A i \in 1..(k - 1) : v.s[i] \in WhiteSpace

StoredHours(given, stored) ==
    /\ stored.t = "number" /\ ~stored.nan
    /\ ~Numeric(given) => stored = Num(0, 0)

C33_HoursNonNegative ==
    /\ p_pc \in {"job", "instance", "edited instance"}
          => NonNegative(p_out.expected_hours)
    /\ p_pc \in {"rule", "edited", "instance", "edited instance"}
          => NonNegative(p_prev.expected_hours)
    /\ p_pc = "job" => StoredHours(p_in.expected_hours, p_out.expected_hours)
    /\ p_pc = "rule" => StoredHours(p_in.expected_hours, p_prev.expected_hours)

\* What does hold: the stored value is always a number, it is 0 for a
\* missing or non-numeric input, an edit without expected_hours keeps the
\* rule's value, the instance carries the rule's value, and a negative
\* value is stored only when the request's number is negative
C33_HoursParsed ==
    /\ p_pc = "job" =>
          /\ StoredHours(p_in.expected_hours, p_out.expected_hours)
          /\ ~NonNegative(p_out.expected_hours) => Negative(p_in.expected_hours)
    /\ p_pc = "rule" =>
          /\ StoredHours(p_in.expected_hours, p_prev.expected_hours)
          /\ ~NonNegative(p_prev.expected_hours) => Negative(p_in.expected_hours)
    /\ p_pc = "edited" =>
          /\ p_prev.expected_hours.t = "number" /\ ~p_prev.expected_hours.nan
          /\ ~NonNegative(p_prev.expected_hours) =>
                \/ Negative(p_in.patch.expected_hours)
                \/ /\ p_in.patch.expected_hours = Undefined
                   /\ Negative(p_in.expected_hours)
    /\ p_pc \in {"instance", "edited instance"} =>
          p_out.expected_hours = p_prev.expected_hours

\* ---------------------------------------------------------------------
\* C34: maps_url is always derived from the job's own address: the job
\* written by add-job and every projected instance, before and after an
\* edit of the rule, carry the map-search link whose query is the
\* percent-encoding of house_number, a space and street of that same job:
\* the query holds no space and no reserved character, each escape stands
\* for one character (%20 for the space), and reading the escapes back
\* gives exactly that text; a maps_url given in the request's address is
\* not used.
EscapedChar(a, b) ==
    CASE <<a, b>> = <<"2", "0">> -> " "
      [] <<a, b>> = <<"2", "6">> -> "&"
      [] <<a, b>> = <<"2", "5">> -> "%"
      [] <<a, b>> = <<"2", "F">> -> "/"
      [] OTHER -> "?"

RECURSIVE Unescape(_)
Unescape(q) ==
    IF q = <<>> THEN <<>>
    ELSE IF Head(q) = "%" /\ Len(q) >= 3
    THEN <<EscapedChar(q[2], q[3])>> \o Unescape(SubSeq(q, 4, Len(q)))
    ELSE <<Head(q)>> \o Unescape(Tail(q))

LinksOwnAddress(j) ==
    /\ j.maps_url.base = "https://www.google.com/maps/search/?api=1&query="
    /\ \A i \in 1..Len(j.maps_url.query) : j.maps_url.query[i] \notin {" ", "&", "/"}
    /\ Unescape(j.maps_url.query) = j.house_number \o <<" ">> \o j.street

C34_MapsUrlDerived ==
    /\ p_pc = "job" =>
          /\ LinksOwnAddress(p_out)
          /\ p_out.street = p_in.address.street
          /\ p_out.house_number = p_in.address.house_number
    /\ p_pc \in {"instance", "edited instance"} =>
          /\ LinksOwnAddress(p_out)
          /\ p_out.street = p_prev.street
          /\ p_out.house_number = p_prev.house_number

\* The job of an add-job for house number 42 in the street "M a" whose
\* address came with a maps_url of its own: the link ends in 42%20M%20a
C34_Witness ==
    /\ p_pc = "job"
    /\ p_in.address.maps_url = SuppliedUrl
    /\ p_in.address.street = <<"M", " ", "a">>
    /\ p_out.maps_url.query
         = <<"4", "2", "%", "2", "0", "M", "%", "2", "0", "a">>

====
